---- MODULE Spec2Model ----
(***************************************************************************)
(* Career-Match backend: the session-keyed search / clarification flow,   *)
(* the routes that need the Job Matcher, request validation of the CV     *)
(* routes and the resume-parsing client.                                   *)
(*                                                                         *)
(* Text is modelled as a sequence of lower-case word tokens (what          *)
(* re.findall(r"\w+", text.lower()) yields); joining with one blank is     *)
(* sequence concatenation and the empty string is the empty sequence.      *)
(* Route handlers are `async def` bodies without an await, so each one     *)
(* runs to completion on the event loop: one action per handler.          *)
(***************************************************************************)
EXTENDS Integers, Sequences, FiniteSets, TLC

(***************************************************************************)
(* Bounds of the model.                                                    *)
(***************************************************************************)
MaxClock == 2          \* requests served in a behaviour
NumSessions == 2       \* distinct client session ids

SessionIds == 1..NumSessions

(***************************************************************************)
(* Generic helpers.                                                        *)
(***************************************************************************)
\* sum of the values of a function with a finite domain
RECURSIVE SumFn(_, _)
SumFn(f, S) ==
    IF S = {} THEN 0
    ELSE LET x == CHOOSE y \in S : TRUE
         IN  f[x] + SumFn(f, S \ {x})

Range(seq) == {seq[i] : i \in 1..Len(seq)}

Take(seq, n) == SubSeq(seq, 1, IF Len(seq) < n THEN Len(seq) ELSE n)

RECURSIVE Flatten(_)
Flatten(seqs) ==
    IF seqs = << >> THEN << >> ELSE Head(seqs) \o Flatten(Tail(seqs))

\* pattern occurs in toks as a contiguous run of tokens
OccursIn(pattern, toks) ==
    \E i \in 1..(Len(toks) - Len(pattern) + 1) :
        SubSeq(toks, i, i + Len(pattern) - 1) = pattern

(***************************************************************************)
(* services/assistant.py : CareerAssistant (pattern-based assistant)       *)
(***************************************************************************)
\* tokens of the model's vocabulary that contain a pattern stem as a proper
\* substring (re.search and `keyword in message` match inside words)
StemsInside(tok) ==
    CASE tok = "designer"   -> {"design"}
      [] tok = "stagiaire"  -> {"stagi"}
      [] tok = "internship" -> {"intern"}
      [] OTHER              -> {}

HasStem(tok, stem) == tok = stem \/ stem \in StemsInside(tok)

MessageHas(toks, stem) == \E i \in 1..Len(toks) : HasStem(toks[i], stem)

\* r'<word> (\w+)': a token ending in <word>, one blank, a following token
FollowedPattern(toks, word) ==
    \E i \in 1..(Len(toks) - 1) : toks[i] = word

patterns ==
    [stage       |-> {"stage", "stagi", "intern", "alternance", "apprentissage"},
     debutant    |-> {"débutant", "junior"},
     remote      |-> {"remote", "télétravail", "teletravail"},
     ville       |-> {"casablanca", "rabat", "marrakech", "tanger"},
     competences |-> {}]

IntentMatches(intent, toks) ==
    \/ \E stem \in patterns[intent] : MessageHas(toks, stem)
    \/ intent = "debutant" /\ (OccursIn(<<"premier", "emploi">>, toks)
                               \/ OccursIn(<<"sans", "expérience">>, toks))
    \/ intent = "remote" /\ OccursIn(<<"à", "distance">>, toks)
    \/ intent = "ville" /\ (FollowedPattern(toks, "à") \/ FollowedPattern(toks, "sur"))
    \/ intent = "competences" /\ (OccursIn(<<"compétence", "en">>, SubSeq(toks, 1, Len(toks) - 1))
                                  \/ FollowedPattern(toks, "savoir")
                                  \/ OccursIn(<<"connaissance", "en">>, SubSeq(toks, 1, Len(toks) - 1)))

IntentOrder == <<"stage", "debutant", "remote", "ville", "competences">>

intent_mapping ==
    [stage       |-> <<"stage", "alternance">>,
     debutant    |-> <<"junior", "débutant">>,
     remote      |-> <<"remote", "télétravail">>,
     ville       |-> << >>,
     competences |-> << >>]

competence_keywords ==
    <<"développeur", "web", "mobile", "data", "marketing", "design", "comptable", "infirmier">>

\* the elements of seq that satisfy the membership test, in order
RECURSIVE FilterIn(_, _)
FilterIn(seq, S) ==
    IF seq = << >> THEN << >>
    ELSE (IF Head(seq) \in S THEN <<Head(seq)>> ELSE << >>) \o FilterIn(Tail(seq), S)

RECURSIVE MapToSeqs(_, _)
MapToSeqs(seq, f) ==
    IF seq = << >> THEN << >> ELSE <<f[Head(seq)]>> \o MapToSeqs(Tail(seq), f)

\* group(1) of the first match of r'à (\w+)', << >> when there is none
Lieu(toks) ==
    IF FollowedPattern(toks, "à")
    THEN LET i == CHOOSE j \in 1..(Len(toks) - 1) :
                     toks[j] = "à" /\ \A k \in 1..(j - 1) : toks[k] # "à"
         IN  <<toks[i + 1]>>
    ELSE << >>

analyze_query(user_message) ==
    LET intentions  == FilterIn(IntentOrder,
                                {it \in Range(IntentOrder) : IntentMatches(it, user_message)})
        competences == FilterIn(competence_keywords,
                                {kw \in Range(competence_keywords) : MessageHas(user_message, kw)})
        lieu        == Lieu(user_message)
        query_parts == Flatten(MapToSeqs(competences, [kw \in Range(competence_keywords) |-> <<kw>>]))
                       \o Flatten(MapToSeqs(intentions, intent_mapping))
    IN  [intentions       |-> intentions,
         competences      |-> competences,
         lieu             |-> lieu,
         fallback_queries |-> (IF lieu # << >> THEN <<user_message \o lieu>> ELSE << >>)
                              \o MapToSeqs(competences,
                                           [kw \in Range(competence_keywords) |->
                                               <<kw, "emploi", "maroc">>]),
         search_query     |-> IF query_parts # << >> THEN query_parts ELSE user_message]

vague_markers ==
    {"help", "aide", "projet", "project", "issue", "problème", "error", "besoin", "conseil"}

skill_markers ==
    {"developpeur", "developer", "data", "analyste", "designer", "marketing",
     "devops", "backend", "frontend"}

MinClearTokens == 4

\* a faulty heuristic that looks at the marker words only, not at the length
is_ambiguous_by_markers(user_message) ==
    IF \E i \in 1..Len(user_message) : user_message[i] \in vague_markers THEN TRUE
    ELSE ~ \E i \in 1..Len(user_message) : user_message[i] \in skill_markers

is_ambiguous(user_message) ==
    IF Len(user_message) < MinClearTokens THEN TRUE
    ELSE IF \E i \in 1..Len(user_message) : user_message[i] \in vague_markers THEN TRUE
    ELSE ~ \E i \in 1..Len(user_message) : user_message[i] \in skill_markers

(***************************************************************************)
(* utils/link_generator.py : outbound links (the URL is kept as the site   *)
(* with the text and the location that are percent-encoded into it)        *)
(***************************************************************************)
generate_google_url(job_title, location) ==
    [site |-> "google", q |-> job_title \o <<"jobs", "in">> \o location]

generate_indeed_url(job_title, location) ==
    [site |-> "indeed", q |-> job_title, l |-> location]

DefaultLocation == <<"morocco">>

_with_links(query, location) ==
    LET loc == IF location # << >> THEN location ELSE DefaultLocation
    IN  [query       |-> query,
         google_link |-> generate_google_url(query, loc),
         indeed_link |-> generate_indeed_url(query, loc)]

(***************************************************************************)
(* CareerAssistant.generate_search_queries                                 *)
(***************************************************************************)
\* a faulty add(q) that skips empty text only, without the `seen` set
RECURSIVE AddAllSeenOrNot(_, _)
AddAllSeenOrNot(queries, cands) ==
    IF cands = << >> THEN queries
    ELSE AddAllSeenOrNot(IF Head(cands) # << >> THEN Append(queries, Head(cands))
                         ELSE queries,
                         Tail(cands))

\* add(q) for every q of cands, in order: skip empty and already seen text
RECURSIVE AddAll(_, _)
AddAll(queries, cands) ==
    IF cands = << >> THEN queries
    ELSE LET q == Head(cands)
         IN  AddAll(IF q # << >> /\ q \notin Range(queries)
                    THEN Append(queries, q) ELSE queries,
                    Tail(cands))

MinQueries == 5
MaxQueries == 8

\* the fallback loop: stop as soon as MinQueries queries are collected
RECURSIVE AddFallback(_, _)
AddFallback(queries, extras) ==
    IF extras = << >> \/ Len(queries) >= MinQueries THEN queries
    ELSE AddFallback(AddAll(queries, <<Head(extras)>>), Tail(extras))

RECURSIVE SkillQueries(_, _)
SkillQueries(competences, lieu) ==
    IF competences = << >> THEN << >>
    ELSE << <<"offre", Head(competences)>> \o (IF lieu # << >> THEN lieu ELSE <<"maroc">>),
            <<Head(competences), "junior", "emploi">> >>
         \o SkillQueries(Tail(competences), lieu)

QueryTexts(user_message) ==
    LET analysis == analyze_query(user_message)
        base     == IF analysis.search_query # << >> THEN analysis.search_query
                    ELSE user_message
        boost    == IF "python" \in Range(user_message) /\ "backend" \in Range(user_message)
                    THEN << <<"developpeur", "backend", "python", "maroc">>,
                            <<"python", "backend", "developer", "maroc">>,
                            base \o <<"python", "backend">> >>
                    ELSE << >>
        place    == IF analysis.lieu # << >> THEN <<base \o analysis.lieu>> ELSE << >>
        remote   == IF "remote" \in Range(analysis.intentions)
                    THEN <<base \o <<"télétravail">> >> ELSE << >>
        generic  == << base \o <<"recrutement", "maroc">>,
                       <<"poste">> \o base \o <<"2025">>,
                       <<"emploi">> \o base \o <<"casablanca">> >>
        fallback_templates ==
                    << base \o <<"salaire">>, base \o <<"cdi">>, base \o <<"stage">>,
                       base \o <<"offre", "d", "emploi">>, base \o <<"opportunités">> >>
        main     == AddAll(<< >>, <<base, user_message>> \o boost \o place \o remote
                                  \o SkillQueries(analysis.competences, analysis.lieu)
                                  \o generic)
    IN  Take(AddFallback(main, fallback_templates), MaxQueries)

RECURSIVE WithLinksAll(_, _)
WithLinksAll(texts, lieu) ==
    IF texts = << >> THEN << >>
    ELSE <<_with_links(Head(texts), lieu)>> \o WithLinksAll(Tail(texts), lieu)

generate_search_queries(user_message) ==
    WithLinksAll(QueryTexts(user_message), analyze_query(user_message).lieu)

(***************************************************************************)
(* services/matcher.py : JobMatcher over the job catalogue.                *)
(* The catalogue is the two-job catalogue of tests/test_search_assistant.  *)
(* With two documents max_df = 0.8 keeps only terms of document frequency  *)
(* one, and the two titles share no term, so every term of a vectorizer    *)
(* has the same idf and the TF-IDF cosine is the cosine of the raw term    *)
(* counts.  A similarity is kept as the squared cosine in millionths.      *)
(***************************************************************************)
Catalogue ==
    << [job_id          |-> 1,
        job_title       |-> <<"développeur", "backend", "python">>,
        category        |-> <<"tech">>,
        description     |-> <<"api", "et", "microservices">>,
        required_skills |-> <<"python", "backend", "api">>],
       [job_id          |-> 2,
        job_title       |-> <<"data", "analyst">>,
        category        |-> <<"tech">>,
        description     |-> <<"sql", "et", "dashboards">>,
        required_skills |-> <<"sql", "bi", "tableau">>] >>

JobIndexes == 1..Len(Catalogue)

stop_words ==
    {"le", "la", "les", "de", "des", "du", "et", "en", "au", "aux", "à", "dans", "pour"}

\* tokens the default token_pattern (two or more word characters) drops
OneCharTokens == {"à", "a", "d"}

RECURSIVE DropTokens(_, _)
DropTokens(toks, S) ==
    IF toks = << >> THEN << >>
    ELSE (IF Head(toks) \in S THEN << >> ELSE <<Head(toks)>>) \o DropTokens(Tail(toks), S)

\* the unigrams and bigrams of a token sequence, ngram_range = (1, 2)
TermsOf(toks) ==
    {<<toks[i]>> : i \in 1..Len(toks)}
        \cup {<<toks[i], toks[i + 1]>> : i \in 1..(Len(toks) - 1)}

TermCount(term, toks) ==
    Cardinality({i \in 1..(Len(toks) - Len(term) + 1) :
                    SubSeq(toks, i, i + Len(term) - 1) = term})

title_weight == 3
skills_weight == 2
description_weight == 1

RECURSIVE Repeat(_, _)
Repeat(toks, n) == IF n = 0 THEN << >> ELSE toks \o Repeat(toks, n - 1)

_combine_job_features(row) ==
    Repeat(row.job_title, title_weight) \o Repeat(row.required_skills, skills_weight)
        \o Repeat(row.description, description_weight) \o row.category

MaxDfNum == 8
MaxDfDen == 10

\* the documents the job vectorizer is fitted on, after tokenisation
RECURSIVE JobDocsOf(_)
JobDocsOf(rows) ==
    IF rows = << >> THEN << >>
    ELSE <<DropTokens(_combine_job_features(Head(rows)), stop_words \cup OneCharTokens)>>
             \o JobDocsOf(Tail(rows))

JobDocs == JobDocsOf(Catalogue)

DocFreq(term, docs) == Cardinality({i \in DOMAIN docs : term \in TermsOf(docs[i])})

\* vocabulary of the job vectorizer: terms with df <= max_df * n_docs
JobVocabulary ==
    {term \in UNION {TermsOf(JobDocs[i]) : i \in JobIndexes} :
        DocFreq(term, JobDocs) * MaxDfDen <= MaxDfNum * Len(Catalogue)}

Dot(a, b, vocabulary) ==
    SumFn([term \in vocabulary |-> TermCount(term, a) * TermCount(term, b)], vocabulary)

ScoreScale == 1000 * 1000

\* squared cosine of the count vectors of a and b over the vocabulary, scaled
Similarity(a, b, vocabulary) ==
    LET d  == Dot(a, b, vocabulary)
        na == Dot(a, a, vocabulary)
        nb == Dot(b, b, vocabulary)
    IN  IF na = 0 \/ nb = 0 THEN 0 ELSE (d * d * ScoreScale) \div (na * nb)

\* similarity > 0.01, on the squared scale
MinSimilarity == 100

\* indexes sorted by descending score, the higher index first among equals
\* (np.argsort(...)[::-1])
RECURSIVE ArgsortDesc(_, _)
ArgsortDesc(score, S) ==
    IF S = {} THEN << >>
    ELSE LET best == CHOOSE i \in S :
                        \A j \in S : score[i] > score[j] \/ (score[i] = score[j] /\ i >= j)
         IN  <<best>> \o ArgsortDesc(score, S \ {best})

RECURSIVE KeepMatches(_, _)
KeepMatches(indices, score) ==
    IF indices = << >> THEN << >>
    ELSE (IF score[Head(indices)] > MinSimilarity
          THEN << [idx |-> Head(indices), score |-> score[Head(indices)]] >>
          ELSE << >>) \o KeepMatches(Tail(indices), score)

search_jobs(query, top_k) ==
    IF query = << >> THEN << >>
    ELSE LET processed_query == DropTokens(query, stop_words \cup OneCharTokens)
             similarities == [i \in JobIndexes |->
                                 Similarity(processed_query, JobDocs[i], JobVocabulary)]
             top_indices  == Take(ArgsortDesc(similarities, JobIndexes), top_k)
         IN  KeepMatches(top_indices, similarities)

get_job_by_index(index) == Catalogue[index]

has_job_title(query) ==
    IF query = << >> THEN FALSE
    ELSE \E i \in JobIndexes : OccursIn(query, Catalogue[i].job_title)

RECURSIVE TitleDocsOf(_)
TitleDocsOf(rows) ==
    IF rows = << >> THEN << >>
    ELSE <<DropTokens(Head(rows).job_title, OneCharTokens)>> \o TitleDocsOf(Tail(rows))

TitleDocs == TitleDocsOf(Catalogue)

TitleVocabulary == UNION {TermsOf(TitleDocs[i]) : i \in JobIndexes}

\* threshold 0.6 on the cosine: 0.36 on the squared scale
TitleThreshold == 360000

semantic_match_title(query) ==
    IF query = << >> THEN FALSE
    ELSE \E i \in JobIndexes :
            Similarity(DropTokens(query, OneCharTokens), TitleDocs[i], TitleVocabulary)
                >= TitleThreshold

(***************************************************************************)
(* CareerAssistant.build_job_results and generate_response                 *)
(***************************************************************************)
\* the aggregated dict, in insertion order: a better score replaces the
\* entry of its job id in place
\* a faulty merge that keeps the score seen last, not the best one
RECURSIVE UpsertLast(_, _, _)
UpsertLast(aggregated, job_id, entry) ==
    IF aggregated = << >> THEN <<entry>>
    ELSE IF Head(aggregated).job_id = job_id THEN <<entry>> \o Tail(aggregated)
    ELSE <<Head(aggregated)>> \o UpsertLast(Tail(aggregated), job_id, entry)

RECURSIVE Upsert(_, _, _)
Upsert(aggregated, job_id, entry) ==
    IF aggregated = << >> THEN <<entry>>
    ELSE IF Head(aggregated).job_id = job_id
    THEN <<IF entry.score > Head(aggregated).score THEN entry ELSE Head(aggregated)>>
             \o Tail(aggregated)
    ELSE <<Head(aggregated)>> \o Upsert(Tail(aggregated), job_id, entry)

RECURSIVE AddMatches(_, _, _)
AddMatches(aggregated, matches, query) ==
    IF matches = << >> THEN aggregated
    ELSE LET m        == Head(matches)
             job_data == get_job_by_index(m.idx)
         IN  AddMatches(Upsert(aggregated, job_data.job_id,
                               [job_id |-> job_data.job_id, score |-> m.score,
                                idx |-> m.idx, source_query |-> query]),
                        Tail(matches), query)

RECURSIVE Aggregate(_, _, _)
Aggregate(aggregated, search_queries, top_k) ==
    IF search_queries = << >> THEN aggregated
    ELSE Aggregate(AddMatches(aggregated,
                              search_jobs(Head(search_queries).query, top_k),
                              Head(search_queries).query),
                   Tail(search_queries), top_k)

\* sorted(..., key = score, reverse = True): stable, descending
RECURSIVE InsertByScore(_, _)
InsertByScore(sorted, item) ==
    IF sorted = << >> THEN <<item>>
    ELSE IF item.score > Head(sorted).score THEN <<item>> \o sorted
    ELSE <<Head(sorted)>> \o InsertByScore(Tail(sorted), item)

RECURSIVE SortByScore(_, _)
SortByScore(sorted, items) ==
    IF items = << >> THEN sorted
    ELSE SortByScore(InsertByScore(sorted, Head(items)), Tail(items))

\* tokens of at most two characters in the model's vocabulary (len(t) > 2 fails)
ShortTokens == {"à", "a", "d", "my", "bi", "et", "in"}

FieldHas(field, tok) == \E i \in 1..Len(field) : HasStem(field[i], tok)

is_relevant(job, primary_tokens) ==
    \E tok \in primary_tokens :
        \/ FieldHas(job.job_title, tok)
        \/ FieldHas(job.required_skills, tok)
        \/ FieldHas(job.description, tok)

RECURSIVE KeepRelevant(_, _)
KeepRelevant(ranked, primary_tokens) ==
    IF ranked = << >> THEN << >>
    ELSE (IF is_relevant(get_job_by_index(Head(ranked).idx), primary_tokens)
          THEN <<Head(ranked)>> ELSE << >>) \o KeepRelevant(Tail(ranked), primary_tokens)

RECURSIVE JobResults(_)
JobResults(ranked) ==
    IF ranked = << >> THEN << >>
    ELSE << [job_id       |-> get_job_by_index(Head(ranked).idx).job_id,
             job_title    |-> get_job_by_index(Head(ranked).idx).job_title,
             match_score  |-> Head(ranked).score,
             source_query |-> Head(ranked).source_query] >> \o JobResults(Tail(ranked))

build_job_results(matcher, search_queries, top_k) ==
    IF matcher = "None" THEN << >>
    ELSE LET aggregated     == Aggregate(<< >>, search_queries, top_k)
             ranked         == SortByScore(<< >>, aggregated)
             primary_query  == IF search_queries # << >> THEN search_queries[1].query ELSE << >>
             primary_tokens == Range(primary_query) \ ShortTokens
             filtered       == KeepRelevant(ranked, primary_tokens)
             kept           == Take(IF filtered # << >> THEN filtered ELSE ranked, top_k)
         IN  JobResults(kept)

\* match_score > 0.7, on the squared scale
HighMatch == 490000

generate_response(user_message, search_results) ==
    LET analysis == analyze_query(user_message)
    IN  [summary |-> [total_matches        |-> Len(search_results),
                      high_quality_matches |->
                          Cardinality({i \in 1..Len(search_results) :
                                          search_results[i].match_score > HighMatch})],
         search_query_used |-> analysis.search_query,
         jobs |-> search_results]

\* build_clarification_question picks variants[abs(hash(message)) % 5]; the
\* string hash is salted per process, so any of the five can be the one
NumVariants == 5
ClarificationVariants == 1..NumVariants

TopK == 5

(***************************************************************************)
(* State.                                                                  *)
(***************************************************************************)
VARIABLES
    job_matcher,    \* routes/job_routes.py: "JobMatcher", or "None" when construction failed
    sessions,       \* CareerAssistant.sessions: session id -> session record
    now,            \* requests served so far: the logical time of datetime.utcnow()
    resp,           \* the response to the request served last, with its footprint
    last_payload,   \* history: per session id, the results payload returned last for it
    parser,         \* ResumeParserAPI.parse_cv_with_resumeparser in progress
    compiler,       \* utils/latex_utils.py: a compile_latex_to_pdf call in progress
    coach,          \* services/llm_assistant.py: the CareerAssistant singleton
    call,           \* the pure function applied last: its name, argument and result
    session_state,  \* frontend: Streamlit's st.session_state of one browser session
    frontend,       \* frontend: the request the API client sent last and what the page showed
    synonym_mapper  \* utils/text_normalizer.py: a SynonymMapper (synonym_map, reverse_map)

vars == <<job_matcher, sessions, now, resp, last_payload, parser, compiler, coach, call,
          session_state, frontend, synonym_mapper>>

NoResults == [kind |-> "none"]
NoSid == 0

\* inputs of the model
Queries ==
    { <<"senior", "python", "backend", "developer">>,
      <<"python", "backend", "developer">>,
      <<"help", "with", "my", "project">>,
      <<"need", "help">>,
      << >> }

Answers == { <<"backend", "python">>, <<"backend">> }

ParserIdle == [pc |-> "idle", filename |-> "", sent |-> << >>, outcomes |-> << >>,
               result |-> [success |-> FALSE, kind |-> "none"]]

\* no compilation started, no coach constructed, no function applied
CompilerIdle == [pc |-> "idle", fn |-> "", tex_file |-> "", searched |-> FALSE,
                 found |-> FALSE, runs |-> << >>, exists |-> FALSE, result |-> "None"]
NoCoach == [pc |-> "none", model |-> "None", model_name |-> "None", probed |-> << >>,
            calls |-> << >>, answers |-> << >>]
NoCall == [fn |-> "none", arg |-> << >>, result |-> << >>]

NoResponse == [route |-> "none", sid |-> NoSid, status |-> 0,
               body |-> NoResults, called |-> {}, input |-> << >>]

(***************************************************************************)
(* frontend: st.session_state as app.py and the pages initialise it, and   *)
(* the page before anything was sent or shown.                             *)
(***************************************************************************)
NoLastResponse == [endpoint |-> "None"]

FreshSessionState == [smart_assistant_messages |-> << >>, last_response |-> NoLastResponse]

NoRequest == [endpoint |-> "none", sent_as |-> "none", fields |-> << >>]

NothingShown == [page |-> "none", shown |-> "nothing", response |-> NoLastResponse]

NoFrontend == [request |-> NoRequest, response |-> NoLastResponse, rendered |-> NothingShown]

(***************************************************************************)
(* utils/text_normalizer.py : SynonymMapper.__init__, _build_reverse_map   *)
(***************************************************************************)
\* the entries of self.synonym_map for JavaScript and MongoDB, in dict order
synonym_items ==
    << <<"js", "javascript">>, <<"javascript", "javascript">>,
       <<"ecmascript", "javascript">>, <<"mongo", "mongodb">>,
       <<"mongodb", "mongodb">> >>

synonym_map == [v \in {synonym_items[i][1] : i \in 1..Len(synonym_items)} |->
                   synonym_items[CHOOSE i \in 1..Len(synonym_items) :
                                    synonym_items[i][1] = v][2]]

\* for variant, standard in self.synonym_map.items(): append variant to the
\* list of standard
RECURSIVE ReverseOf(_, _)
ReverseOf(items, reverse_map) ==
    IF items = << >> THEN reverse_map
    ELSE LET variant == Head(items)[1]
             standard == Head(items)[2]
             listed == IF standard \in DOMAIN reverse_map THEN reverse_map[standard]
                       ELSE << >>
         IN  ReverseOf(Tail(items),
                       [s \in DOMAIN reverse_map \cup {standard} |->
                           IF s = standard THEN Append(listed, variant)
                           ELSE reverse_map[s]])

_build_reverse_map(items) == ReverseOf(items, [s \in {} |-> << >>])

BuiltMapper ==
    [synonym_map |-> synonym_map,
     reverse_map |-> _build_reverse_map(synonym_items),
     calls |-> 0]

Init ==
    /\ job_matcher \in {"JobMatcher", "None"}
    /\ session_state = FreshSessionState
    /\ frontend = NoFrontend
    /\ synonym_mapper = BuiltMapper
    /\ sessions = [s \in {} |-> NoResults]
    /\ now = 0
    /\ resp = NoResponse
    /\ last_payload = [s \in SessionIds |-> NoResults]
    /\ parser = ParserIdle
    /\ compiler = CompilerIdle
    /\ coach = NoCoach
    /\ call = NoCall

(***************************************************************************)
(* Session operations of CareerAssistant.                                  *)
(***************************************************************************)
\* a faulty save_session that rewrites every entry of the map, not only its own
save_session_all(sess, session_id, original_query, question, ts) ==
    [t \in DOMAIN sess \cup {session_id} |->
        [original_query   |-> original_query,
         clarify_question |-> question,
         last_results     |-> NoResults,
         timestamp        |-> ts]]

save_session(sess, session_id, original_query, question, ts) ==
    [t \in DOMAIN sess \cup {session_id} |->
        IF t = session_id
        THEN [original_query   |-> original_query,
              clarify_question |-> question,
              last_results     |-> NoResults,
              timestamp        |-> ts]
        ELSE sess[t]]

HasSession(sess, session_id) == session_id \in DOMAIN sess

\* a faulty update_session_results that merges into the stored payload: the new
\* fields under the timestamp of the payload that was there
update_session_results_merge(sess, session_id, results) ==
    IF session_id \in DOMAIN sess
    THEN LET old == sess[session_id].last_results
         IN  [sess EXCEPT ![session_id].last_results =
                 IF old = NoResults THEN results
                 ELSE [results EXCEPT !.timestamp = old.timestamp]]
    ELSE sess

update_session_results(sess, session_id, results) ==
    IF session_id \in DOMAIN sess
    THEN [sess EXCEPT ![session_id].last_results = results]
    ELSE sess

\* history of what was returned for a session id
Returned(session_id, payload) ==
    IF session_id \in SessionIds
    THEN [last_payload EXCEPT ![session_id] = payload]
    ELSE last_payload

(***************************************************************************)
(* routes/search_routes.py : /api/search, /api/clarify, /api/results       *)
(***************************************************************************)
HttpError(route, session_id, status, detail, called, input) ==
    [route |-> route, sid |-> session_id, status |-> status,
     body |-> [kind |-> "error", detail |-> detail], called |-> called, input |-> input]

\* every text that can reach the search flow: a query, an answer, or a stored
\* query followed by an answer
UserQueries ==
    (Queries \cup Answers) \cup {q \o a : q \in Queries \cup Answers, a \in Answers}

\* what _run_search_flow computes once the search queries are generated
SearchFlowFrom(matcher, user_query, search_queries) ==
    [search_queries |-> search_queries,
     results        |-> generate_response(user_query,
                                          build_job_results(matcher, search_queries, TopK)),
     title_known    |-> matcher # "None"
                        /\ (has_job_title(user_query) \/ semantic_match_title(user_query))]

\* what _run_search_flow computes from the query alone, per state of the matcher
SearchFlowOf(matcher, user_query) ==
    SearchFlowFrom(matcher, user_query, generate_search_queries(user_query))

RECURSIVE TableOf(_, _)
TableOf(matcher, S) ==
    IF S = {} THEN << >>
    ELSE LET q == CHOOSE x \in S : TRUE
         IN  (q :> SearchFlowOf(matcher, q)) @@ TableOf(matcher, S \ {q})

\* the search flow of every text, computed once
SearchFlowTable ==
    [JobMatcher |-> TableOf("JobMatcher", UserQueries),
     None       |-> TableOf("None", UserQueries)]

TitleKnown(user_query) == SearchFlowTable.JobMatcher[user_query].title_known

\* a request is served: it sees a later datetime.utcnow() than the ones before
Tick == now < MaxClock /\ now' = now + 1

\* the payload _run_search_flow builds from what the search computed; llm is
\* whether the LLM gave a message
SearchPayload(flow, llm, ts) ==
    [kind              |-> "results",
     clarify           |-> FALSE,
     search_queries    |-> flow.search_queries,
     results           |-> flow.results,
     assistant_message |-> flow.title_known /\ llm,
     timestamp         |-> ts]

\* services the search flow calls
SearchFlowCalls(flow) ==
    {"assistant"} \cup (IF job_matcher # "None" THEN {"matcher"} ELSE {})
        \cup (IF flow.title_known THEN {"llm"} ELSE {})

\* what a handler leaves behind: the session map, the response, and the
\* results payload it returned (NoResults when it returned none)
Outcome(sess, response, payload) ==
    [sessions |-> sess, resp |-> response, returned |-> payload]

\* the handler finishes with outcome o
Apply(o) ==
    /\ sessions' = o.sessions
    /\ resp' = o.resp
    /\ last_payload' = IF o.returned # NoResults THEN Returned(o.resp.sid, o.returned)
                       ELSE last_payload

\* the end of _run_search_flow: store the payload and return it
StoreAndReturn(sess, route, session_id, payload, called, input) ==
    Outcome(update_session_results(sess, session_id, payload),
            [route |-> route, sid |-> session_id, status |-> 200,
             body |-> payload, called |-> called, input |-> input],
            payload)

\* _run_search_flow, given what the search computes for the query
RunFlow(sess, route, flow, session_id, llm, input, ts) ==
    StoreAndReturn(sess, route, session_id, SearchPayload(flow, llm, ts),
                   SearchFlowCalls(flow), input)

\* _run_search_flow on the session map sess, at time ts
_run_search_flow(sess, route, user_query, session_id, llm, input, ts) ==
    RunFlow(sess, route, SearchFlowTable[job_matcher][user_query], session_id, llm, input, ts)

\* a faulty clarification body that carries no question
ClarifyBodyBlank(question) == [kind |-> "clarify", clarify |-> TRUE, question |-> 0]

ClarifyBody(question) == [kind |-> "clarify", clarify |-> TRUE, question |-> question]

\* POST /api/search on the session map sess: the outcomes it can have
search_on(sess, session_id, query, ts) ==
    IF job_matcher = "None"
    THEN {Outcome(sess, HttpError("search", session_id, 500, "Job matcher not initialized",
                                  {}, query), NoResults)}
    ELSE IF query = << >>
    THEN {Outcome(sess, HttpError("search", session_id, 400, "Query cannot be empty",
                                  {}, query), NoResults)}
    ELSE IF is_ambiguous(query)
    THEN {Outcome(save_session(sess, session_id, query, question, ts),
                  [route |-> "search", sid |-> session_id, status |-> 200,
                   body |-> ClarifyBody(question), called |-> {"assistant"},
                   input |-> query],
                  NoResults) : question \in ClarificationVariants}
    ELSE {_run_search_flow(save_session(sess, session_id, query, 0, ts),
                           "search", query, session_id, llm, query, ts) : llm \in BOOLEAN}

search(session_id, query) ==
    /\ Tick
    /\ UNCHANGED <<job_matcher, parser, compiler, coach, call, session_state, frontend, synonym_mapper>>
    /\ \E o \in search_on(sessions, session_id, query, now + 1) : Apply(o)

\* POST /api/clarify on the session map sess
clarify_on(sess, session_id, answer, ts) ==
    IF ~ HasSession(sess, session_id)
    THEN {_run_search_flow(save_session(sess, session_id, answer, 0, ts),
                           "clarify", answer, session_id, llm, answer, ts) : llm \in BOOLEAN}
    ELSE LET session       == sess[session_id]
             refined_query == session.original_query \o answer
         IN  IF job_matcher = "None"
             THEN \* job_matcher.has_job_title on None: unhandled AttributeError
                  {Outcome(sess, HttpError("clarify", session_id, 500,
                                           "Internal Server Error", {}, answer), NoResults)}
             ELSE IF TitleKnown(refined_query)
             THEN {_run_search_flow(sess, "clarify", refined_query, session_id,
                                    llm, answer, ts) : llm \in BOOLEAN}
             ELSE {Outcome(save_session(sess, session_id, session.original_query,
                                        question, ts),
                           [route |-> "clarify", sid |-> session_id, status |-> 200,
                            body |-> ClarifyBody(question),
                            called |-> {"assistant", "matcher"}, input |-> answer],
                           NoResults) : question \in ClarificationVariants}

clarify(session_id, answer) ==
    /\ Tick
    /\ UNCHANGED <<job_matcher, parser, compiler, coach, call, session_state, frontend, synonym_mapper>>
    /\ \E o \in clarify_on(sessions, session_id, answer, now + 1) : Apply(o)

\* GET /api/results on the session map sess is last_results_on, below.
\* a faulty /api/results that answers 200 for every known session, even when
\* its last_results is empty
last_results_any(sess, session_id) ==
    IF ~ HasSession(sess, session_id)
    THEN Outcome(sess, HttpError("results", session_id, 404,
                                 "No results stored for this session", {}, << >>),
                 NoResults)
    ELSE Outcome(sess, [route |-> "results", sid |-> session_id, status |-> 200,
                        body |-> sess[session_id].last_results, called |-> {},
                        input |-> << >>],
                 NoResults)

last_results_on(sess, session_id) ==
    IF ~ HasSession(sess, session_id) \/ sess[session_id].last_results = NoResults
    THEN Outcome(sess, HttpError("results", session_id, 404,
                                 "No results stored for this session", {}, << >>),
                 NoResults)
    ELSE Outcome(sess, [route |-> "results", sid |-> session_id, status |-> 200,
                        body |-> sess[session_id].last_results, called |-> {},
                        input |-> << >>],
                 NoResults)

last_results(session_id) ==
    /\ Tick
    /\ UNCHANGED <<job_matcher, parser, compiler, coach, call, session_state, frontend, synonym_mapper>>
    /\ Apply(last_results_on(sessions, session_id))

(***************************************************************************)
(* services/resume_parser_api.py : parse_cv_with_resumeparser              *)
(* An attempt ends in one of: "ok" (HTTP 200 and the body is decoded and   *)
(* formatted), "bad_body" (HTTP 200 but response.json() or the formatting  *)
(* raises), "status" (another status code, with a JSON body),              *)
(* "status_text" (another status code, and the body is not JSON), "raise"  *)
(* (requests.post raises).                                                 *)
(***************************************************************************)
RequestShapes == <<"multipart+bearer", "base64+bearer", "base64+key">>

AttemptOutcomes == {"ok", "bad_body", "status", "status_text", "raise"}

LastMethod == 3

\* AfterAttempt, below, is what the code does after attempt `method` ended in
\* `outcome`.
\* a faulty rule that takes every HTTP 200 for a success, decoded or not
AfterAttemptAny200(method, outcome) ==
    IF outcome \in {"ok", "bad_body"} THEN "return_success"
    ELSE IF method < LastMethod THEN "next_method"
    ELSE "return_failure"

AfterAttempt(method, outcome) ==
    IF outcome = "ok" THEN "return_success"
    ELSE IF method < LastMethod THEN "next_method"
    ELSE "return_failure"

ParseSuccess(method) == [success |-> TRUE, kind |-> "parsed", method |-> method]

\* the failure result of method 3: the error of the response, or of the exception
ParseFailure(outcome) ==
    [success |-> FALSE,
     kind    |-> IF outcome = "status" THEN "api_error" ELSE "all_methods_failed",
     method  |-> LastMethod]

ReadFailure == [success |-> FALSE, kind |-> "error_processing_cv", method |-> 0]

FileNames == {"cv.pdf", "cv.docx", "cv.txt"}

\* cv_file.file.read(), then method 1
parse_start(filename, read_ok) ==
    /\ parser.pc = "idle"
    /\ parser' = IF read_ok
                 THEN [parser EXCEPT !.pc = "method", !.filename = filename]
                 ELSE [parser EXCEPT !.pc = "done", !.filename = filename,
                                     !.result = ReadFailure]
    /\ UNCHANGED <<job_matcher, sessions, now, resp, last_payload, compiler, coach, call, session_state, frontend, synonym_mapper>>

\* one requests.post and the handling of its outcome
parse_attempt(outcome) ==
    /\ parser.pc = "method"
    /\ LET method == Len(parser.sent) + 1
           after  == AfterAttempt(method, outcome)
       IN  parser' = [parser EXCEPT
                        !.sent     = Append(@, [shape |-> RequestShapes[method],
                                                filename |-> parser.filename]),
                        !.outcomes = Append(@, outcome),
                        !.pc       = IF after = "next_method" THEN "method" ELSE "done",
                        !.result   = IF after = "return_success" THEN ParseSuccess(method)
                                     ELSE IF after = "return_failure" THEN ParseFailure(outcome)
                                     ELSE @]
    /\ UNCHANGED <<job_matcher, sessions, now, resp, last_payload, compiler, coach, call, session_state, frontend, synonym_mapper>>

\* the result of a whole call, for the routes that call the parser
RECURSIVE RunParser(_, _)
RunParser(method, outcomes) ==
    LET after == AfterAttempt(method, outcomes[method])
    IN  IF after = "return_success" THEN ParseSuccess(method)
        ELSE IF after = "return_failure" THEN ParseFailure(outcomes[method])
        ELSE RunParser(method + 1, outcomes)

ParseResults ==
    {ReadFailure} \cup {RunParser(1, <<o1, o2, o3>>) : o1 \in AttemptOutcomes,
                                                     o2 \in AttemptOutcomes,
                                                     o3 \in AttemptOutcomes}

(***************************************************************************)
(* utils/latex_utils.py : compile_latex_to_pdf, and its older copy         *)
(* routes/search_routes.py : _compile_latex_to_pdf.                        *)
(* An invocation of pdflatex ends in one of: "zero" (exit code 0),         *)
(* "nonzero" (another exit code), "timeout" (subprocess.TimeoutExpired),   *)
(* "not_found" (FileNotFoundError: no such executable), "raise" (any other *)
(* exception of subprocess.run).                                           *)
(***************************************************************************)
Compilers == {"compile_latex_to_pdf", "_compile_latex_to_pdf"}

RunOutcomes == {"zero", "nonzero", "timeout", "not_found", "raise"}

\* for run_num in range(2)
MaxRuns == 2

PdfFile == "generated_resume.pdf"
NoPdf == "None"

LatexSources == {"resume_a.tex", "resume_b.tex", "resume_c.tex"}

\* AfterRun, below, is what the loop does after invocation run_num (counted
\* from 1) ended in `outcome`.
\* a faulty rule that never looks at the exit code
AfterRunAnyExit(fn, run_num, outcome) ==
    IF outcome \in {"timeout", "not_found", "raise"} THEN "return_none"
    ELSE IF run_num < MaxRuns THEN "next_run"
    ELSE "check_file"

AfterRun(fn, run_num, outcome) ==
    IF outcome \in {"timeout", "not_found", "raise"} THEN "return_none"
    ELSE IF outcome = "nonzero" /\ (fn = "_compile_latex_to_pdf" \/ run_num = MaxRuns)
    THEN "return_none"
    ELSE IF run_num < MaxRuns THEN "next_run"
    ELSE "check_file"

\* writing the .tex file, then (compile_latex_to_pdf only) find_pdflatex()
compile_start(fn, latex_content, written, found) ==
    /\ compiler.pc = "idle"
    /\ compiler' =
         [pc       |-> IF written /\ (found \/ fn = "_compile_latex_to_pdf")
                       THEN "run" ELSE "done",
          fn       |-> fn,
          tex_file |-> IF written THEN latex_content ELSE "",
          searched |-> written /\ fn = "compile_latex_to_pdf",
          found    |-> written /\ fn = "compile_latex_to_pdf" /\ found,
          runs     |-> << >>,
          exists   |-> FALSE,
          result   |-> NoPdf]
    /\ UNCHANGED <<job_matcher, sessions, now, resp, last_payload, parser, coach, call, session_state, frontend, synonym_mapper>>

\* one subprocess.run and the handling of its outcome
compile_run(outcome) ==
    /\ compiler.pc = "run"
    /\ LET after == AfterRun(compiler.fn, Len(compiler.runs) + 1, outcome)
       IN  compiler' = [compiler EXCEPT
                          !.runs = Append(@, outcome),
                          !.pc   = IF after = "next_run" THEN "run"
                                   ELSE IF after = "check_file" THEN "check_file"
                                   ELSE "done"]
    /\ UNCHANGED <<job_matcher, sessions, now, resp, last_payload, parser, coach, call, session_state, frontend, synonym_mapper>>

\* os.path.exists(pdf_file) after the loop
compile_check(exists) ==
    /\ compiler.pc = "check_file"
    /\ compiler' = [compiler EXCEPT !.pc = "done", !.exists = exists,
                                    !.result = IF exists THEN PdfFile ELSE NoPdf]
    /\ UNCHANGED <<job_matcher, sessions, now, resp, last_payload, parser, coach, call, session_state, frontend, synonym_mapper>>

\* the result of a whole call, for the routes that compile; tagged with what
\* made it end
RECURSIVE RunCompiler(_, _, _, _)
RunCompiler(fn, run_num, outcomes, exists) ==
    LET after == AfterRun(fn, run_num, outcomes[run_num])
    IN  IF after = "return_none"
        THEN [pdf_path |-> NoPdf, cause |-> outcomes[run_num]]
        ELSE IF after = "next_run" THEN RunCompiler(fn, run_num + 1, outcomes, exists)
        ELSE IF exists THEN [pdf_path |-> PdfFile, cause |-> "compiled"]
        ELSE [pdf_path |-> NoPdf, cause |-> "no_file"]

Compilations ==
    {[pdf_path |-> NoPdf, cause |-> "raise"], [pdf_path |-> NoPdf, cause |-> "not_found"]}
    \cup {RunCompiler(fn, 1, <<o1, o2>>, e) : fn \in Compilers, o1 \in RunOutcomes,
                                             o2 \in RunOutcomes, e \in BOOLEAN}

(***************************************************************************)
(* routes/search_routes.py and routes/ats_routes.py : the routes that      *)
(* cache their result in the session of the caller                         *)
(***************************************************************************)
Failure(route, session_id, error, called) ==
    [route |-> route, sid |-> session_id, status |-> 200,
     body |-> [kind |-> "failure", success |-> FALSE, error |-> error],
     called |-> called, input |-> << >>]

\* a success response: built with a timestamp, cached when a session id came
Succeed(sess, route, session_id, payload, called) ==
    Outcome(IF session_id # NoSid
            THEN update_session_results(sess, session_id, payload)
            ELSE sess,
            [route |-> route, sid |-> session_id, status |-> 200,
             body |-> payload, called |-> called, input |-> << >>],
            payload)

Fail(sess, route, session_id, error, called) ==
    Outcome(sess, Failure(route, session_id, error, called), NoResults)

\* POST /api/cv_analyser; analysis_ok: the TF-IDF fit and the skill extraction
\* did not raise
cv_analyser_on(sess, session_id, has_file, cv_text_len, jd_len, parsed, analysis_ok, ts) ==
    IF (~ has_file /\ cv_text_len = 0) \/ jd_len = 0
    THEN Fail(sess, "cv_analyser", session_id, "Missing CV or Job Description", {})
    ELSE IF has_file /\ ~ parsed.success
    THEN Fail(sess, "cv_analyser", session_id, parsed.kind, {"parser"})
    ELSE LET called == (IF has_file THEN {"parser"} ELSE {}) \cup {"analyzer"}
         IN  IF ~ analysis_ok
             THEN Fail(sess, "cv_analyser", session_id, "exception", called)
             ELSE Succeed(sess, "cv_analyser", session_id,
                          [kind |-> "cv_analysis", success |-> TRUE, timestamp |-> ts],
                          called)

cv_analyser(session_id, has_file, cv_text_len, jd_len, parsed, analysis_ok) ==
    /\ Tick
    /\ UNCHANGED <<job_matcher, parser, compiler, coach, call, session_state, frontend, synonym_mapper>>
    /\ Apply(cv_analyser_on(sessions, session_id, has_file, cv_text_len, jd_len, parsed,
                            analysis_ok, now + 1))

\* base64.b64encode(data).decode(): texts are modelled by their length, and
\* every 3 bytes, or rest of them, give 4 characters
b64encode(size) == 4 * ((size + 2) \div 3)

\* sizes in bytes of the PDF file that is read back: none was produced, or one
\* was (a file that exists can still be empty)
PdfSizesFor(compiled) == IF compiled.pdf_path = NoPdf THEN {0} ELSE {0, 1000}

\* AtsCvResponse, below, is the success response of /api/ats_cv.
\* a faulty response that always announces a PDF
AtsCvResponseAlwaysPdf(ats_latex, pdf_base64, ts) ==
    [kind |-> "ats_cv", success |-> TRUE, ats_cv_text |-> ats_latex,
     ats_latex |-> ats_latex, pdf_base64 |-> pdf_base64,
     pdf_available |-> TRUE, timestamp |-> ts]

AtsCvResponse(ats_latex, pdf_base64, ts) ==
    [kind |-> "ats_cv", success |-> TRUE, ats_cv_text |-> ats_latex,
     ats_latex |-> ats_latex, pdf_base64 |-> pdf_base64,
     pdf_available |-> pdf_base64 # 0, timestamp |-> ts]

\* the LaTeX source the generator returns for a parsed CV
AtsLatex == "ats_resume.tex"

\* what the handler was given by the compiler, kept with the response
Compiled(o, compiled) == [o EXCEPT !.resp.input = <<compiled.cause, compiled.pdf_path>>]

\* POST /api/ats_cv; generated: template loading and rendering did not raise;
\* compiled: what the compiler returned; pdf_size: the bytes read from the PDF
ats_cv_optimizer_on(sess, session_id, has_file, parsed, generated, compiled, pdf_size, ts) ==
    IF ~ has_file
    THEN Fail(sess, "ats_cv", session_id, "Missing CV file.", {})
    ELSE IF ~ parsed.success
    THEN Fail(sess, "ats_cv", session_id, parsed.kind, {"parser"})
    ELSE IF ~ generated
    THEN Fail(sess, "ats_cv", session_id, "exception", {"parser"})
    ELSE Compiled(Succeed(sess, "ats_cv", session_id,
                          AtsCvResponse(AtsLatex,
                                        IF compiled.pdf_path # NoPdf
                                        THEN b64encode(pdf_size) ELSE 0,
                                        ts),
                          {"parser", "latex", "compiler"}),
                  compiled)

ats_cv_optimizer(session_id, has_file, parsed, generated, compiled, pdf_size) ==
    /\ Tick
    /\ UNCHANGED <<job_matcher, parser, compiler, coach, call, session_state, frontend, synonym_mapper>>
    /\ Apply(ats_cv_optimizer_on(sessions, session_id, has_file, parsed, generated,
                                 compiled, pdf_size, now + 1))

MinResumeLen == 50

\* POST /api/ats_evaluate; text_len is the length of the resume text that the
\* parser returned or the caller pasted
ats_evaluate_resume_on(sess, session_id, has_file, text_len, parsed, evaluated, ts) ==
    IF has_file /\ ~ parsed.success
    THEN Fail(sess, "ats_evaluate", session_id, parsed.kind, {"parser"})
    ELSE IF ~ has_file /\ text_len = 0
    THEN Fail(sess, "ats_evaluate", session_id,
              "Either CV file or resume text must be provided", {})
    ELSE LET called == IF has_file THEN {"parser"} ELSE {}
         IN  IF text_len < MinResumeLen
             THEN Fail(sess, "ats_evaluate", session_id,
                       "Resume text is too short or empty", called)
             ELSE IF ~ evaluated
             THEN Fail(sess, "ats_evaluate", session_id, "evaluation failed",
                       called \cup {"evaluator"})
             ELSE Succeed(sess, "ats_evaluate", session_id,
                          [kind |-> "ats_evaluation", success |-> TRUE, timestamp |-> ts],
                          called \cup {"evaluator"})

ats_evaluate_resume(session_id, has_file, text_len, parsed, evaluated) ==
    /\ Tick
    /\ UNCHANGED <<job_matcher, parser, compiler, coach, call, session_state, frontend, synonym_mapper>>
    /\ Apply(ats_evaluate_resume_on(sessions, session_id, has_file, text_len, parsed,
                                    evaluated, now + 1))

(***************************************************************************)
(* routes/assistant_routes.py : POST /api/assistant (basic assistant)      *)
(***************************************************************************)
\* append the matches whose index is not yet in all_matches, up to limit entries
RECURSIVE AddNew(_, _, _)
AddNew(all_matches, matches, limit) ==
    IF matches = << >> \/ Len(all_matches) >= limit THEN all_matches
    ELSE AddNew(IF \E k \in 1..Len(all_matches) : all_matches[k].idx = Head(matches).idx
                THEN all_matches ELSE Append(all_matches, Head(matches)),
                Tail(matches), limit)

Unlimited == 1000 * 1000

RECURSIVE TryFallbacks(_, _)
TryFallbacks(all_matches, fallback_queries) ==
    IF fallback_queries = << >> THEN all_matches
    ELSE TryFallbacks(AddNew(all_matches, search_jobs(Head(fallback_queries), 5), Unlimited),
                      Tail(fallback_queries))

general_queries == << <<"technologie">>, <<"informatique">>, <<"digital">> >>

\* the very general searches: stop at the first one that finds something
RECURSIVE TryGeneral(_)
TryGeneral(queries) ==
    IF queries = << >> THEN << >>
    ELSE LET gen_matches == search_jobs(Head(queries), 3)
         IN  IF gen_matches # << >> THEN gen_matches ELSE TryGeneral(Tail(queries))

min_results == 8
MainTopK == 10
FallbackNeed == 5
MaxFallbacks == 3

RECURSIVE AssistantJobs(_)
AssistantJobs(top_matches) ==
    IF top_matches = << >> THEN << >>
    ELSE LET job_data == get_job_by_index(Head(top_matches).idx)
         IN  << [job_id      |-> job_data.job_id,
                 job_title   |-> job_data.job_title,
                 match_score |-> Head(top_matches).score] >>
             \o AssistantJobs(Tail(top_matches))

\* the body the basic assistant answers with when the matcher is there
basic_assistant(message) ==
    LET analysis     == analyze_query(message)
        search_query == IF analysis.search_query # << >> THEN analysis.search_query
                        ELSE message
        main         == search_jobs(search_query, MainTopK)
        with_fb      == IF Len(main) < FallbackNeed /\ analysis.fallback_queries # << >>
                        THEN TryFallbacks(main, Take(analysis.fallback_queries, MaxFallbacks))
                        ELSE main
        all_matches  == IF with_fb = << >> THEN TryGeneral(general_queries) ELSE with_fb
        sorted       == SortByScore(<< >>, all_matches)
        top_matches  == IF Len(sorted) < min_results
                        THEN SortByScore(<< >>,
                                 AddNew(sorted, search_jobs(message, min_results * 2),
                                        min_results))
                        ELSE sorted
    IN  [kind |-> "assistant"] @@ generate_response(message, AssistantJobs(top_matches))

\* messages the assistants are asked in the model, alone or with a clarification
Messages == Queries \ {<< >>}

AssistantMessages == Messages \cup {m \o a : m \in Messages, a \in Answers}

RECURSIVE AssistantTableOf(_)
AssistantTableOf(S) ==
    IF S = {} THEN << >>
    ELSE LET m == CHOOSE x \in S : TRUE
         IN  (m :> basic_assistant(m)) @@ AssistantTableOf(S \ {m})

\* the basic assistant's answer to every message, computed once
AssistantTable == AssistantTableOf(AssistantMessages)

RECURSIVE MatchTableOf(_, _)
MatchTableOf(S, top_k) ==
    IF S = {} THEN << >>
    ELSE LET m == CHOOSE x \in S : TRUE
         IN  (m :> search_jobs(m, top_k)) @@ MatchTableOf(S \ {m}, top_k)

\* JobMatcher.search_jobs on every message, computed once per top_k in use
MatchTable == (TopK :> MatchTableOf(Messages, TopK))
              @@ (min_results :> MatchTableOf(Messages, min_results))

Answer(route, status, body, called, input) ==
    [route |-> route, sid |-> NoSid, status |-> status, body |-> body,
     called |-> called, input |-> input]

NotInitialized(route, input) ==
    HttpError(route, NoSid, 500, "Job matcher not initialized", {}, input)

Stateless ==
    Tick /\ UNCHANGED <<job_matcher, sessions, last_payload, parser, compiler, coach, call, session_state, frontend, synonym_mapper>>

career_assistant_endpoint(message) ==
    /\ Stateless
    /\ resp' = IF job_matcher = "None" THEN NotInitialized("assistant", message)
               ELSE Answer("assistant", 200, AssistantTable[message],
                           {"assistant", "matcher"}, message)

(***************************************************************************)
(* routes/job_routes.py : the /jobs routes                                 *)
(***************************************************************************)
get_all_jobs ==
    /\ Stateless
    /\ resp' = IF job_matcher = "None" THEN NotInitialized("jobs_all", << >>)
               ELSE Answer("jobs_all", 200, [kind |-> "jobs", count |-> Len(Catalogue)],
                           {"matcher"}, << >>)

search_jobs_route(query, top_k) ==
    /\ Stateless
    /\ resp' = IF job_matcher = "None" THEN NotInitialized("jobs_search", query)
               ELSE IF query = << >>
               THEN HttpError("jobs_search", NoSid, 400, "Query cannot be empty", {}, query)
               ELSE Answer("jobs_search", 200,
                           [kind |-> "job_search", results |-> MatchTable[top_k][query]],
                           {"matcher"}, query)

get_categories ==
    /\ Stateless
    /\ resp' = IF job_matcher = "None" THEN NotInitialized("jobs_categories", << >>)
               ELSE Answer("jobs_categories", 200,
                           [kind |-> "categories",
                            categories |-> {Catalogue[i].category : i \in JobIndexes}],
                           {"matcher"}, << >>)

get_jobs_by_category(category_name) ==
    /\ Stateless
    /\ resp' = IF job_matcher = "None" THEN NotInitialized("jobs_category", category_name)
               ELSE Answer("jobs_category", 200,
                           [kind |-> "jobs",
                            count |-> Cardinality({i \in JobIndexes :
                                                      Catalogue[i].category = category_name})],
                           {"matcher"}, category_name)

(***************************************************************************)
(* utils/link_generator.py : generate_all_urls, and GET                    *)
(* /jobs/{job_title}/search-link.  A URL is its site and its encoded       *)
(* title: quote_plus joins the words by "+", quote by "%20".               *)
(***************************************************************************)
generate_linkedin_url(job_title, location) ==
    [site |-> "linkedin", q |-> job_title, l |-> location, space |-> "+"]

generate_stagiaires_url(job_title) ==
    [site |-> "stagiaires", q |-> job_title, l |-> << >>, space |-> "%20"]

generate_rekrute_url(job_title) ==
    [site |-> "rekrute", q |-> job_title, l |-> << >>, space |-> "+"]

\* the dict generate_all_urls returns
generate_all_urls(job_title, location) ==
    [k \in {"stagiaires_url", "linkedin_url", "indeed_url", "google_url", "rekrute_url"} |->
       CASE k = "stagiaires_url" -> generate_stagiaires_url(job_title)
         [] k = "linkedin_url" -> generate_linkedin_url(job_title, location)
         [] k = "indeed_url" -> generate_indeed_url(job_title, location) @@ [space |-> "%20"]
         [] k = "google_url" -> generate_google_url(job_title, location)
                                   @@ [l |-> << >>, space |-> "%20"]
         [] k = "rekrute_url" -> generate_rekrute_url(job_title)]

\* the keys get_job_search_link reads from the dict
SearchLinkKeys ==
    {"linkedin_url", "indeed_url", "google_url", "marocannonces_url", "rekrute_url"}

\* urls[key] for every key read; a key the dict lacks raises KeyError, which
\* the route does not catch
get_job_search_link(job_title) ==
    /\ Stateless
    /\ LET urls == generate_all_urls(job_title, DefaultLocation)
       IN  resp' = IF SearchLinkKeys \subseteq DOMAIN urls
                   THEN Answer("jobs_search_link", 200,
                               [kind |-> "search_link", job_title |-> job_title,
                                urls |-> [k \in SearchLinkKeys |-> urls[k]]],
                               {"link_generator"}, job_title)
                   ELSE HttpError("jobs_search_link", NoSid, 500, "Internal Server Error",
                                  {"link_generator"}, job_title)

(***************************************************************************)
(* routes/smart_assistant_routes.py : POST /api/smart-assistant            *)
(* The LLM is outside the program: its analysis of a message is an input   *)
(* (intent, needs_clarification, whether it proposes a search query), or   *)
(* an exception.  The call back into /api/assistant is an HTTP request to  *)
(* localhost:8000, which can be unreachable.                               *)
(***************************************************************************)
LlmAnalyses ==
    [intent : {"coaching", "search"}, needs_clarification : BOOLEAN, has_query : BOOLEAN]

SmartError ==
    [kind |-> "smart", error |-> TRUE, needs_clarification |-> FALSE,
     jobs |-> << >>, search_query_used |-> << >>]

SmartQuestion(intent) ==
    [kind |-> "smart", error |-> FALSE, needs_clarification |-> TRUE,
     jobs |-> << >>, search_query_used |-> << >>, intent |-> intent]

\* SmartJobs, below, is the response that carries the jobs found.
\* a faulty response that asks for a clarification all the same
SmartJobsAsking(search_query, jobs, via) ==
    [kind |-> "smart", error |-> FALSE, needs_clarification |-> TRUE,
     jobs |-> jobs, search_query_used |-> search_query, via |-> via]

SmartJobs(search_query, jobs, via) ==
    [kind |-> "smart", error |-> FALSE, needs_clarification |-> FALSE,
     jobs |-> jobs, search_query_used |-> search_query, via |-> via]

\* the call to /api/assistant succeeds: reachable, and the route answers 200
ForwardOk(reachable) == reachable /\ job_matcher # "None"

\* the part of the handler after the clarification branch
SmartAnalysis(message, llm_raises, analysis, reachable) ==
    IF llm_raises THEN Answer("smart", 200, SmartError, {"llm"}, message)
    ELSE IF analysis.intent = "coaching"
    THEN Answer("smart", 200,
                [kind |-> "smart", error |-> FALSE,
                 needs_clarification |-> analysis.needs_clarification,
                 jobs |-> << >>, search_query_used |-> << >>, intent |-> "coaching"],
                {"llm"}, message)
    ELSE IF analysis.needs_clarification
    THEN Answer("smart", 200, SmartQuestion(analysis.intent), {"llm"}, message)
    ELSE IF ~ analysis.has_query
    THEN Answer("smart", 200, SmartQuestion("vague"), {"llm"}, message)
    ELSE IF ForwardOk(reachable)
    THEN Answer("smart", 200, SmartJobs(message, AssistantTable[message].jobs, "assistant"),
                {"llm", "assistant_api"}, message)
    ELSE IF job_matcher = "None"
    THEN \* job_matcher.search_jobs on None raises; the handler catches it
         Answer("smart", 200, SmartError, {"llm", "assistant_api"}, message)
    ELSE Answer("smart", 200,
                SmartJobs(message, AssistantJobs(MatchTable[min_results][message]), "direct"),
                {"llm", "assistant_api", "matcher"}, message)

smart_career_assistant(message, clarification, reachable, llm_raises, analysis) ==
    /\ Stateless
    /\ resp' = IF clarification # << >> /\ ForwardOk(reachable) /\ ~ llm_raises
               THEN Answer("smart", 200,
                           SmartJobs(message \o clarification,
                                     AssistantTable[message \o clarification].jobs,
                                     "assistant"),
                           {"assistant_api", "llm"}, message \o clarification)
               ELSE SmartAnalysis(message, llm_raises, analysis, reachable)

(***************************************************************************)
(* routes/cv_routes.py and utils/cv_parser.py : validation of the input    *)
(***************************************************************************)
MinTextLen == 10
MinCvLen == 100

\* POST /cv/analyze: the HTTPException(400) is raised inside the try block and
\* `except Exception` turns it into a 500
analyze_cv_job_match(cv_len, jd_len, analysis_ok) ==
    /\ Stateless
    /\ resp' = IF cv_len < MinTextLen
               THEN HttpError("cv_analyze", NoSid, 500, "Erreur d'analyse: 400: CV trop court",
                              {}, <<cv_len, jd_len>>)
               ELSE IF jd_len < MinTextLen
               THEN HttpError("cv_analyze", NoSid, 500,
                              "Erreur d'analyse: 400: Description d'offre trop courte",
                              {}, <<cv_len, jd_len>>)
               ELSE IF ~ analysis_ok
               THEN HttpError("cv_analyze", NoSid, 500, "Erreur d'analyse", {"analyzer"},
                              <<cv_len, jd_len>>)
               ELSE Answer("cv_analyze", 200, [kind |-> "cv_match"], {"analyzer"},
                           <<cv_len, jd_len>>)

\* POST /cv/analyze-upload; text_len is the length of the text the parser gave
analyze_cv_upload(parsed, text_len, analysis_ok) ==
    /\ Stateless
    /\ resp' = IF ~ parsed.success
               THEN HttpError("cv_upload", NoSid, 500, "Erreur d'analyse: 400: parsing",
                              {"parser"}, <<text_len>>)
               ELSE IF text_len < MinCvLen
               THEN HttpError("cv_upload", NoSid, 500,
                              "Erreur d'analyse: 400: CV trop court ou illisible",
                              {"parser"}, <<text_len>>)
               ELSE IF ~ analysis_ok
               THEN HttpError("cv_upload", NoSid, 500, "Erreur d'analyse",
                              {"parser", "analyzer"}, <<text_len>>)
               ELSE Answer("cv_upload", 200, [kind |-> "cv_match"],
                           {"parser", "analyzer"}, <<text_len>>)

SupportedExtensions == {"pdf", "docx", "txt"}

\* CVParser.extract_text_from_cv: the 400 for an unknown extension is raised
\* inside the try block and re-raised as a 500
extract_text_from_cv(extension, readable) ==
    /\ Stateless
    /\ resp' = IF extension \notin SupportedExtensions
               THEN HttpError("extract_text", NoSid, 500,
                              "Erreur d'extraction: 400: Format non supporté", {},
                              <<extension>>)
               ELSE IF ~ readable
               THEN HttpError("extract_text", NoSid, 500, "Erreur d'extraction",
                              {"extractor"}, <<extension>>)
               ELSE Answer("extract_text", 200, [kind |-> "text"], {"extractor"},
                           <<extension>>)

\* lengths of a pasted text: empty, and long enough for every route
PastedLens == {0, 50}

\* what the parser can return for an upload; nothing is parsed without a file
ParsedFor(has_file) ==
    IF has_file THEN {ParseSuccess(1), ParseFailure("raise")} ELSE {ReadFailure}

Next ==
    \/ \E s \in SessionIds, q \in Queries : search(s, q)
    \/ \E s \in SessionIds, a \in Answers : clarify(s, a)
    \/ \E s \in SessionIds : last_results(s)
    \/ \E s \in SessionIds \cup {NoSid}, f \in BOOLEAN, c \in PastedLens, j \in PastedLens,
          ok \in BOOLEAN : \E p \in ParsedFor(f) : cv_analyser(s, f, c, j, p, ok)
    \/ \E s \in SessionIds \cup {NoSid}, f \in BOOLEAN, g \in BOOLEAN, c \in Compilations :
          \E p \in ParsedFor(f), n \in PdfSizesFor(c) : ats_cv_optimizer(s, f, p, g, c, n)
    \/ \E s \in SessionIds \cup {NoSid}, f \in BOOLEAN, c \in PastedLens, ok \in BOOLEAN :
          \E p \in ParsedFor(f) : ats_evaluate_resume(s, f, c, p, ok)

Spec == Init /\ [][Next]_vars

(***************************************************************************)
(* Properties of the session routes, checked under Spec.                   *)
(***************************************************************************)

\* C1: clarification round trip.  When the session of s holds a clarification
\* question (the /api/search on s answered clarify:true) and /api/clarify on s
\* is given an answer for which the matcher's search finds at least one job
\* for the original query combined with the answer, the response is
\* clarify:false with results.summary.total_matches >= 1.
C1_RoundTrip ==
    [][\A s \in SessionIds, a \in Answers :
          ( /\ job_matcher # "None"
            /\ HasSession(sessions, s)
            /\ sessions[s].clarify_question # 0
            /\ resp'.route = "clarify" /\ resp'.sid = s /\ resp'.input = a
            /\ MatchTableOf({sessions[s].original_query \o a}, TopK)
                   [sessions[s].original_query \o a] # << >> )
          => ( /\ resp'.body.kind = "results"
               /\ resp'.body.clarify = FALSE
               /\ resp'.body.results.summary.total_matches >= 1 )]_vars

\* C2: /api/search with a query that is_ambiguous judges vague answers
\* clarify:true with a non-empty question, stores the query and that question
\* in the session of the caller, and does not query the matcher.
C2_AmbiguousSearchAsks ==
    ( /\ resp.route = "search"
      /\ job_matcher # "None"
      /\ resp.input # << >>
      /\ is_ambiguous(resp.input) )
    => ( /\ resp.status = 200
         /\ resp.body.kind = "clarify"
         /\ resp.body.clarify = TRUE
         /\ resp.body.question \in ClarificationVariants
         /\ HasSession(sessions, resp.sid)
         /\ sessions[resp.sid].original_query = resp.input
         /\ sessions[resp.sid].clarify_question = resp.body.question
         /\ sessions[resp.sid].last_results = NoResults
         /\ "matcher" \notin resp.called )

\* the vague query of the test was asked and answered with a question
C2_Asked ==
    /\ resp.route = "search"
    /\ resp.input = <<"help", "with", "my", "project">>
    /\ resp.body.kind = "clarify"
    /\ HasSession(sessions, resp.sid)
    /\ sessions[resp.sid].clarify_question = resp.body.question

\* C3: /api/search with the clear query 'python backend developer' (a job
\* domain, no vague marker) answers clarify:false with at least 5
\* search_queries, each with query, google_link and indeed_link, and with
\* results.summary.total_matches >= 1 when the catalogue holds a matching job.
C3_ClearQuerySearches ==
    ( /\ resp.route = "search"
      /\ job_matcher # "None"
      /\ resp.input = <<"python", "backend", "developer">>
      /\ MatchTable[TopK][resp.input] # << >> )
    => ( /\ resp.status = 200
         /\ resp.body.kind = "results"
         /\ resp.body.clarify = FALSE
         /\ Len(resp.body.search_queries) >= MinQueries
         /\ \A i \in 1..Len(resp.body.search_queries) :
               {"query", "google_link", "indeed_link"}
                   \subseteq DOMAIN resp.body.search_queries[i]
         /\ resp.body.results.summary.total_matches >= 1 )

C5_CreatedOnFirstContact ==
    ( /\ resp.sid # NoSid
      /\ resp.route \in {"search", "clarify", "cv_analyser", "ats_cv", "ats_evaluate"}
      /\ resp.status = 200
      /\ resp.body.kind \notin {"failure", "error"} )
    => ( /\ HasSession(sessions, resp.sid)
         /\ resp.body.kind # "clarify" => sessions[resp.sid].last_results = resp.body )

\* C6: in every reachable state, whatever request arrives next for a session
\* id s leaves the entry of every other id as it is (not created, modified or
\* removed), and answers exactly as it would if s were the only session.
C6_Independent ==
    \A s \in SessionIds :
       LET Only(sess, t) == [u \in DOMAIN sess \cap {t} |-> sess[u]]
           alone == Only(sessions, s)
           ts == now + 1
           Same(real, iso) ==
               \A o \in real :
                  /\ \E o2 \in iso : /\ o2.resp = o.resp
                                     /\ o2.sessions = Only(o.sessions, s)
                  /\ \A t \in SessionIds \ {s} : Only(o.sessions, t) = Only(sessions, t)
       IN  /\ \A q \in Queries :
                Same(search_on(sessions, s, q, ts), search_on(alone, s, q, ts))
           /\ \A a \in Answers :
                Same(clarify_on(sessions, s, a, ts), clarify_on(alone, s, a, ts))
           /\ Same({last_results_on(sessions, s)}, {last_results_on(alone, s)})
           /\ \A f \in BOOLEAN, c \in PastedLens, j \in PastedLens, ok \in BOOLEAN :
                \A p \in ParsedFor(f) :
                   Same({cv_analyser_on(sessions, s, f, c, j, p, ok, ts)},
                        {cv_analyser_on(alone, s, f, c, j, p, ok, ts)})
           /\ \A f \in BOOLEAN, g \in BOOLEAN, c \in Compilations :
                \A p \in ParsedFor(f), n \in PdfSizesFor(c) :
                   Same({ats_cv_optimizer_on(sessions, s, f, p, g, c, n, ts)},
                        {ats_cv_optimizer_on(alone, s, f, p, g, c, n, ts)})
           /\ \A f \in BOOLEAN, c \in PastedLens, ok \in BOOLEAN :
                \A p \in ParsedFor(f) :
                   Same({ats_evaluate_resume_on(sessions, s, f, c, p, ok, ts)},
                        {ats_evaluate_resume_on(alone, s, f, c, p, ok, ts)})

\* two sessions with different contents; the request on the second one has
\* been served and the entry of the first is as its own request left it
C6_TwoSessions ==
    /\ HasSession(sessions, 1) /\ HasSession(sessions, 2)
    /\ resp.sid = 2
    /\ sessions[1].timestamp = 1
    /\ sessions[2].timestamp = 2
    /\ sessions[1].original_query # sessions[2].original_query

\* C7: requests on the same session id are served one after the other, and
\* the last writer wins: the session's last_results is empty or the complete
\* payload of the last request that produced results for it, the request
\* that wrote last finds its whole payload stored, and no request fails.
C7_LastWriterWins ==
    /\ \A s \in DOMAIN sessions : sessions[s].last_results \in {NoResults, last_payload[s]}
    /\ ( /\ resp.sid # NoSid
         /\ HasSession(sessions, resp.sid)
         /\ resp.route # "results"
         /\ resp.status = 200
         /\ resp.body.kind \notin {"failure", "error", "clarify"} )
       => sessions[resp.sid].last_results = resp.body
    /\ job_matcher # "None" => resp.status < 500

\* a session written by a search and then overwritten by a CV analysis
C7_Overwritten ==
    /\ resp.route = "cv_analyser"
    /\ HasSession(sessions, resp.sid)
    /\ sessions[resp.sid].timestamp = 1
    /\ sessions[resp.sid].last_results.kind = "cv_analysis"
    /\ sessions[resp.sid].last_results.timestamp = 2
    /\ last_payload[resp.sid] = resp.body

TextLens == {0, 9, 10, 99, 100}

Extensions == SupportedExtensions \cup {"odt"}

NextRoutes ==
    \/ \E s \in SessionIds, q \in Queries : search(s, q)
    \/ \E s \in SessionIds, a \in Answers : clarify(s, a)
    \/ \E m \in Messages : career_assistant_endpoint(m)
    \/ get_all_jobs
    \/ \E q \in Queries : search_jobs_route(q, TopK)
    \/ get_categories
    \/ \E c \in {<<"tech">>, <<"sales">>} : get_jobs_by_category(c)
    \/ \E q \in Messages : get_job_search_link(q)
    \/ \E m \in Messages, c \in Answers \cup {<< >>}, up \in BOOLEAN, ex \in BOOLEAN,
          an \in LlmAnalyses : smart_career_assistant(m, c, up, ex, an)
    \/ \E c \in TextLens, j \in TextLens, ok \in BOOLEAN : analyze_cv_job_match(c, j, ok)
    \/ \E c \in TextLens, ok \in BOOLEAN :
          \E p \in ParsedFor(TRUE) : analyze_cv_upload(p, c, ok)
    \/ \E e \in Extensions, r \in BOOLEAN : extract_text_from_cv(e, r)

SpecRoutes == Init /\ [][NextRoutes]_vars

NextParser ==
    \/ \E f \in FileNames, ok \in BOOLEAN : parse_start(f, ok)
    \/ \E o \in AttemptOutcomes : parse_attempt(o)

SpecParser == Init /\ [][NextParser]_vars

(***************************************************************************)
(* Properties of the routes' error handling, checked under SpecRoutes.     *)
(***************************************************************************)

\* C8: when job_matcher is None, every route that needs the matcher
\* (/jobs/all, /jobs/search, /jobs/categories, /jobs/category/{name},
\* /api/assistant, /api/search, /api/clarify, and the smart assistant once it
\* has a query to search) answers 500 with the message that the matcher is
\* not initialized, never a 200 payload.
C8_NotInitialized ==
    ( /\ job_matcher = "None"
      /\ \/ resp.route \in {"jobs_all", "jobs_search", "jobs_categories", "jobs_category",
                            "assistant", "search", "clarify"}
         \/ resp.route = "smart" /\ "assistant_api" \in resp.called )
    => ( /\ resp.status = 500
         /\ resp.body.kind = "error"
         /\ resp.body.detail = "Job matcher not initialized" )

\* C9: an empty query, a CV text or job description of fewer than 10
\* characters, or a file with an unsupported extension is answered with
\* status 400 and without calling the analyzer, the parser or the matcher.
C9_InvalidInput ==
    ( \/ /\ resp.route \in {"search", "jobs_search"}
         /\ job_matcher # "None"
         /\ resp.input = << >>
      \/ /\ resp.route = "cv_analyze"
         /\ (resp.input[1] < MinTextLen \/ resp.input[2] < MinTextLen)
      \/ /\ resp.route = "extract_text"
         /\ resp.input[1] \notin SupportedExtensions )
    => ( /\ resp.status = 400
         /\ resp.called \cap {"analyzer", "parser", "matcher", "extractor"} = {} )

(***************************************************************************)
(* Properties of parse_cv_with_resumeparser, checked under SpecParser.     *)
(***************************************************************************)

\* C10 as stated: the three shapes are sent in order, a later one only after
\* every earlier one failed; no request follows an HTTP 200 and the call
\* then succeeds; at most three requests; after three failures the result
\* is a failure.
C10_StopsAtFirst200 ==
    /\ Len(parser.sent) <= LastMethod
    /\ \A i \in 1..Len(parser.sent) : parser.sent[i].shape = RequestShapes[i]
    /\ \A i \in 1..(Len(parser.outcomes) - 1) : parser.outcomes[i] \notin {"ok", "bad_body"}
    /\ (parser.pc = "done" /\ parser.outcomes # << >>)
       => (parser.result.success
              <=> parser.outcomes[Len(parser.outcomes)] \in {"ok", "bad_body"})

\* C10: the three shapes are sent in order, a later one only after every
\* earlier one failed to give a response that is HTTP 200 and decodes; no
\* request follows such a response, and the call then returns it as the
\* success result; at most three requests; when no attempt gave one, all
\* three were sent and the result is a failure result, not an exception.
C10_StopsAtFirstDecoded200 ==
    /\ Len(parser.sent) <= LastMethod
    /\ Len(parser.outcomes) = Len(parser.sent)
    /\ \A i \in 1..Len(parser.sent) : parser.sent[i].shape = RequestShapes[i]
    /\ \A i \in 1..(Len(parser.outcomes) - 1) : parser.outcomes[i] # "ok"
    /\ parser.pc = "method" => Len(parser.sent) < LastMethod
    /\ (parser.pc = "done" /\ parser.outcomes # << >>)
       => /\ parser.result.success <=> parser.outcomes[Len(parser.outcomes)] = "ok"
          /\ parser.result.success => parser.result.method = Len(parser.sent)
          /\ ~ parser.result.success
                => /\ Len(parser.sent) = LastMethod
                   /\ parser.result.kind \in {"api_error", "all_methods_failed"}
    /\ parser.pc = "done" => parser.result.kind # "none"

\* the first shape answered 200 with a body that does not decode, the second
\* another status, the third succeeded
C10_ThirdShapeParsed ==
    /\ parser.pc = "done"
    /\ parser.outcomes = <<"bad_body", "status", "ok">>
    /\ parser.result = ParseSuccess(LastMethod)

(***************************************************************************)
(* The PDF compiler on its own.                                            *)
(***************************************************************************)
NextCompiler ==
    \/ \E fn \in Compilers, latex_content \in LatexSources, written, found \in BOOLEAN :
          compile_start(fn, latex_content, written, found)
    \/ \E outcome \in RunOutcomes : compile_run(outcome)
    \/ \E exists \in BOOLEAN : compile_check(exists)

SpecCompiler == Init /\ [][NextCompiler]_vars

CompileDone == compiler.pc = "done"

\* C12 as stated: the compiler is invoked at most twice; the PDF path is
\* returned only when both invocations exited with code zero and the PDF file
\* exists; no-result whenever an invocation exits non-zero or times out or the
\* compiler is missing.
C12_BothRunsZero ==
    /\ Len(compiler.runs) <= MaxRuns
    /\ CompileDone /\ compiler.result = PdfFile
          => compiler.runs = <<"zero", "zero">> /\ compiler.exists
    /\ CompileDone /\ (Range(compiler.runs) \ {"zero"} # {}
                       \/ (compiler.searched /\ ~ compiler.found))
          => compiler.result = NoPdf

\* C12, amended: the compiler is invoked at most twice and the call always
\* returns; the PDF path is returned only when the PDF file exists and the
\* last of two invocations exited with code zero (and, in the copy of
\* search_routes.py, the first one too); no-result whenever the second
\* invocation exits non-zero, any invocation times out or cannot be started,
\* or the compiler is not found.  compile_latex_to_pdf tolerates a non-zero
\* exit of its first invocation.
C12_LastRunZero ==
    /\ Len(compiler.runs) <= MaxRuns
    /\ compiler.result \in {PdfFile, NoPdf}
    /\ CompileDone /\ compiler.result = PdfFile
          => /\ Len(compiler.runs) = MaxRuns
             /\ compiler.runs[MaxRuns] = "zero"
             /\ compiler.runs[1] \in {"zero", "nonzero"}
             /\ compiler.fn = "_compile_latex_to_pdf" => compiler.runs[1] = "zero"
             /\ compiler.exists
             /\ compiler.tex_file # ""
    /\ CompileDone /\ (Range(compiler.runs) \cap {"timeout", "not_found", "raise"} # {}
                       \/ (Len(compiler.runs) = MaxRuns
                           /\ compiler.runs[MaxRuns] = "nonzero")
                       \/ (compiler.searched /\ ~ compiler.found))
          => compiler.result = NoPdf

\* C12, witness: compile_latex_to_pdf returned the PDF although its first
\* invocation exited non-zero
C12_FirstRunTolerated ==
    /\ CompileDone
    /\ compiler.fn = "compile_latex_to_pdf"
    /\ compiler.runs = <<"nonzero", "zero">>
    /\ compiler.result = PdfFile

(***************************************************************************)
(* POST /api/ats_cv and the compiler (under Spec).                         *)
(***************************************************************************)
AtsCvSuccess == resp.route = "ats_cv" /\ resp.body.kind = "ats_cv"

\* C11: once the CV is parsed and the LaTeX source generated, /api/ats_cv
\* answers with a success response that carries the LaTeX source whatever the
\* compiler returned; when the compiler returned no PDF (not found, non-zero
\* exit, timeout, no file) pdf_base64 is empty and pdf_available is false; and
\* in every success response pdf_available is true exactly when pdf_base64 is
\* not empty.
C11_LatexWithoutPdf ==
    /\ [](AtsCvSuccess =>
            /\ resp.body.success
            /\ resp.body.ats_latex = AtsLatex
            /\ resp.body.pdf_available <=> resp.body.pdf_base64 # 0
            /\ resp.input[2] = NoPdf
                  => resp.body.pdf_base64 = 0 /\ ~ resp.body.pdf_available)
    /\ [][\A s \in SessionIds \cup {NoSid}, c \in Compilations :
            \A n \in PdfSizesFor(c) :
               ats_cv_optimizer(s, TRUE, ParseSuccess(1), TRUE, c, n)
                  => /\ resp'.body.kind = "ats_cv"
                     /\ resp'.body.success
                     /\ resp'.body.ats_latex = AtsLatex
                     /\ resp'.input = <<c.cause, c.pdf_path>>]_vars

\* C11, witness: the compiler timed out and the response is the LaTeX source
\* without a PDF
C11_SourceOnly ==
    /\ AtsCvSuccess
    /\ resp.input = <<"timeout", NoPdf>>
    /\ resp.body.ats_latex = AtsLatex
    /\ ~ resp.body.pdf_available

(***************************************************************************)
(* services/gemini_ats_evaluator.py : GeminiATSEvaluator                   *)
(* A JSON value is modelled by its type, its number (int), the strings it  *)
(* answers `key in value` with (the keys of a dict, the elements of a      *)
(* list, the words of a str), and for a dict the keys whose value is a     *)
(* list.                                                                   *)
(***************************************************************************)
JsonDict(keys, lists) == [type |-> "dict", num |-> 0, has |-> keys, list_valued |-> lists]
JsonStr(words) == [type |-> "str", num |-> 0, has |-> words, list_valued |-> {}]
JsonList(elems) == [type |-> "list", num |-> 0, has |-> elems, list_valued |-> {}]
JsonInt(n) == [type |-> "int", num |-> n, has |-> {}, list_valued |-> {}]
JsonNull == [type |-> "null", num |-> 0, has |-> {}, list_valued |-> {}]

\* the exception of an operation the type does not support
TypeError == [type |-> "TypeError", num |-> 0, has |-> {}, list_valued |-> {}]

required_categories ==
    << "Contact Information", "Spelling & Grammar", "Personal Pronoun Usage",
       "Skills & Keyword Targeting", "Complex or Long Sentences",
       "Generic or Weak Phrases", "Passive Voice Usage", "Quantified Achievements",
       "Required Resume Sections", "AI-generated Language", "Repeated Action Verbs",
       "Visual Formatting or Readability", "Personal Information / Bias Triggers",
       "Other Strengths and Weaknesses" >>

\* {"Positives": [], "Negatives": []}
EmptyFeedback == JsonDict({"Positives", "Negatives"}, {"Positives", "Negatives"})

\* if key not in value: value[key] = []
\* (`in` raises on None and on a number; the assignment raises on a str and on
\* a list)
SetDefaultList(value, key) ==
    IF value.type \in {"TypeError", "null", "int"} THEN TypeError
    ELSE IF key \in value.has THEN value
    ELSE IF value.type = "dict"
    THEN [value EXCEPT !.has = @ \cup {key}, !.list_valued = @ \cup {key}]
    ELSE TypeError

\* _validate_structure, as long as nothing raises: the keys of data are kept
_validate_structure(data) ==
    [k \in DOMAIN data \cup Range(required_categories) \cup {"ATS_Score"} |->
        IF k = "ATS_Score"
        THEN IF k \in DOMAIN data THEN data[k] ELSE JsonInt(0)
        ELSE IF k \notin Range(required_categories) THEN data[k]
        ELSE IF k \notin DOMAIN data THEN EmptyFeedback
        ELSE SetDefaultList(SetDefaultList(data[k], "Positives"), "Negatives")]

NoJson == [k \in {} |-> JsonNull]

EvaluationFailure(error) ==
    [success |-> FALSE, error |-> error, evaluation |-> NoJson, ats_score |-> 0]

\* the end of evaluate_resume: an exception of _validate_structure is caught
CheckedEvaluation(evaluation) ==
    IF \E k \in DOMAIN evaluation : evaluation[k] = TypeError
    THEN EvaluationFailure("exception")
    ELSE [success |-> TRUE, error |-> "", evaluation |-> evaluation,
          ats_score |-> evaluation["ATS_Score"].num]

\* evaluate_resume on a resume of resume_len characters, when the model
\* answers with reply
evaluate_resume_of(resume_len, reply) ==
    IF resume_len = 0 THEN EvaluationFailure("Resume text is empty")
    ELSE IF reply.kind = "raise" THEN EvaluationFailure("exception")
    ELSE IF reply.kind = "no_json"
    THEN EvaluationFailure("No JSON block detected in AI response")
    ELSE IF reply.kind = "bad_json"
    THEN EvaluationFailure("Failed to parse AI response as JSON")
    ELSE CheckedEvaluation(_validate_structure(reply.data))

\* what the model can put under a category
CategoryValues ==
    { JsonDict({"Positives", "Negatives"}, {"Positives", "Negatives"}),
      JsonDict({"Positives"}, {"Positives"}),
      JsonDict({"Negatives"}, {"Negatives"}),
      JsonDict({}, {}),
      JsonDict({"Positives", "Negatives"}, {"Negatives"}),
      JsonStr({"Positives", "none", "Negatives"}),
      JsonStr({"good"}),
      JsonList({"good"}),
      JsonNull }

\* keys of the replies of the model: the score, two of the categories, and a
\* key that is not a category
ReplyKeys == {"ATS_Score", "Contact Information", "Spelling & Grammar", "Summary"}

ReplyValues(k) ==
    IF k = "ATS_Score" THEN {JsonInt(80)}
    ELSE IF k = "Summary" THEN {JsonStr({"good"})}
    ELSE CategoryValues

JsonObjects ==
    UNION { {f \in [K -> CategoryValues \cup {JsonInt(80)}] : \A k \in K : f[k] \in ReplyValues(k)} :
            K \in SUBSET ReplyKeys }

LlmReplies ==
    {[kind |-> k, data |-> NoJson] : k \in {"raise", "no_json", "bad_json"}}
    \cup {[kind |-> "json", data |-> d] : d \in JsonObjects}

ResumeLens == {0, 60}

InitEvaluator ==
    /\ job_matcher = "JobMatcher"
    /\ session_state = FreshSessionState
    /\ frontend = NoFrontend
    /\ synonym_mapper = BuiltMapper
    /\ sessions = [s \in {} |-> NoResults]
    /\ now = 0
    /\ resp = NoResponse
    /\ last_payload = [s \in SessionIds |-> NoResults]
    /\ parser = ParserIdle
    /\ compiler = CompilerIdle
    /\ coach = NoCoach
    /\ call \in {[fn |-> "none", arg |-> [resume_len |-> n, reply |-> r], result |-> << >>] :
                   n \in ResumeLens, r \in LlmReplies}

evaluate_resume ==
    /\ call.fn = "none"
    /\ call' = [call EXCEPT !.fn = "evaluate_resume",
                            !.result = evaluate_resume_of(call.arg.resume_len,
                                                          call.arg.reply)]
    /\ UNCHANGED <<job_matcher, sessions, now, resp, last_payload, parser, compiler, coach, session_state, frontend, synonym_mapper>>

NextEvaluator == evaluate_resume

SpecEvaluator == InitEvaluator /\ [][NextEvaluator]_vars

Evaluated == call.fn = "evaluate_resume" /\ call.result.success

\* C13: whatever JSON object the model returned, a successful evaluation has
\* exactly the 14 category keys besides ATS_Score (0 when the model gave
\* none), and each category is an object with a Positives and a Negatives
\* list.
C13_FourteenCategories ==
    Evaluated =>
       /\ DOMAIN call.result.evaluation = Range(required_categories) \cup {"ATS_Score"}
       /\ "ATS_Score" \notin DOMAIN call.arg.reply.data => call.result.ats_score = 0
       /\ \A c \in Range(required_categories) :
             /\ call.result.evaluation[c].type = "dict"
             /\ {"Positives", "Negatives"} \subseteq call.result.evaluation[c].list_valued

(***************************************************************************)
(* services/llm_assistant.py : CareerAssistant (the LLM coach)             *)
(* coach.model is the GenerativeModel the object holds ("None" when it     *)
(* holds none), coach.probed the candidates tried by __init__ with what    *)
(* happened, coach.calls the models that generate_content was called on    *)
(* after construction, coach.answers what each call of the coach returned. *)
(***************************************************************************)
model_candidates ==
    << "gemini-2.0-flash", "gemini-2.0-flash-exp", "gemini-2.5-flash",
       "gemini-2.0-flash-lite", "gemini-pro-latest" >>

\* a pass of the loop of __init__: genai.GenerativeModel(name) raises
\* ("no_model"), or the object is built and the smoke test raises ("failed")
\* or answers ("ok")
ProbeOutcomes == {"no_model", "failed", "ok"}

\* calls of the coach served in a behaviour
MaxCalls == 2

\* self.model = None; self.model_name = None, and the loop starts
coach_init ==
    /\ coach.pc = "none"
    /\ coach' = [coach EXCEPT !.pc = "probing"]
    /\ UNCHANGED <<job_matcher, sessions, now, resp, last_payload, parser, compiler, call, session_state, frontend, synonym_mapper>>

\* one pass of the loop over model_candidates
coach_probe(outcome) ==
    /\ coach.pc = "probing"
    /\ LET model_name == model_candidates[Len(coach.probed) + 1]
       IN  coach' = [coach EXCEPT
                       !.model      = IF outcome = "no_model" THEN @ ELSE model_name,
                       !.model_name = IF outcome = "no_model" THEN @ ELSE model_name,
                       !.probed     = Append(@, [model_name |-> model_name,
                                                 outcome |-> outcome]),
                       !.pc         = IF outcome = "ok"
                                         \/ Len(coach.probed) + 1 = Len(model_candidates)
                                      THEN "ready" ELSE "probing"]
    /\ UNCHANGED <<job_matcher, sessions, now, resp, last_payload, parser, compiler, call, session_state, frontend, synonym_mapper>>

\* the coach answers from a template, without the model
Canned(coach_state, fn) ==
    [coach_state EXCEPT !.answers = Append(@, [fn |-> fn, from |-> "template"])]

\* the coach calls generate_content on the model it holds; generated: the
\* call answered, otherwise the except branch answers from the template
Generate(coach_state, fn, generated) ==
    [coach_state EXCEPT
       !.calls   = Append(@, coach_state.model),
       !.answers = Append(@, [fn |-> fn,
                              from |-> IF generated THEN coach_state.model
                                       ELSE "template"])]

coach_thinking_on(coach_state, fn, generated) ==
    IF coach_state.model = "None" THEN Canned(coach_state, fn)
    ELSE Generate(coach_state, fn, generated)

coach_thinking(generated) ==
    /\ coach.pc = "ready"
    /\ Len(coach.answers) < MaxCalls
    /\ coach' = coach_thinking_on(coach, "coach_thinking", generated)
    /\ UNCHANGED <<job_matcher, sessions, now, resp, last_payload, parser, compiler, call, session_state, frontend, synonym_mapper>>

respond_with_jobs_context(has_jobs, generated) ==
    /\ coach.pc = "ready"
    /\ Len(coach.answers) < MaxCalls
    /\ coach' = IF ~ has_jobs
                THEN coach_thinking_on(coach, "respond_with_jobs_context", generated)
                ELSE IF coach.model = "None"
                THEN Canned(coach, "respond_with_jobs_context")
                ELSE Generate(coach, "respond_with_jobs_context", generated)
    /\ UNCHANGED <<job_matcher, sessions, now, resp, last_payload, parser, compiler, call, session_state, frontend, synonym_mapper>>

NextCoach ==
    \/ coach_init
    \/ \E outcome \in ProbeOutcomes : coach_probe(outcome)
    \/ \E generated \in BOOLEAN : coach_thinking(generated)
    \/ \E has_jobs \in BOOLEAN, generated \in BOOLEAN :
          respond_with_jobs_context(has_jobs, generated)

SpecCoach == Init /\ [][NextCoach]_vars

SmokeTestPassed == \E i \in 1..Len(coach.probed) : coach.probed[i].outcome = "ok"

\* C14: __init__ probes the candidates in list order and keeps the first one
\* whose smoke test succeeds, probing none after it; when no smoke test
\* succeeds the coach holds no model, and every later coach_thinking and
\* respond_with_jobs_context answers from the template without calling a
\* model.
C14_FallbackForLife ==
    /\ \A i \in 1..Len(coach.probed) :
          /\ coach.probed[i].model_name = model_candidates[i]
          /\ coach.probed[i].outcome = "ok"
                => i = Len(coach.probed) /\ coach.model = model_candidates[i]
    /\ coach.pc = "ready" /\ ~ SmokeTestPassed
          => /\ coach.model = "None"
             /\ coach.calls = << >>
             /\ \A i \in 1..Len(coach.answers) : coach.answers[i].from = "template"

Words == {"python", "backend", "data", "help", "remote", "senior"}

\* longest message, in tokens
MaxTokens == 4

RECURSIVE SeqsUpTo(_, _)
SeqsUpTo(S, n) ==
    IF n = 0 THEN {<< >>}
    ELSE LET shorter == SeqsUpTo(S, n - 1)
         IN  shorter \cup {Append(q, w) : q \in {x \in shorter : Len(x) = n - 1}, w \in S}

UserMessages == SeqsUpTo(Words, MaxTokens)

InitAssistant ==
    /\ job_matcher = "JobMatcher"
    /\ session_state = FreshSessionState
    /\ frontend = NoFrontend
    /\ synonym_mapper = BuiltMapper
    /\ sessions = [s \in {} |-> NoResults]
    /\ now = 0
    /\ resp = NoResponse
    /\ last_payload = [s \in SessionIds |-> NoResults]
    /\ parser = ParserIdle
    /\ compiler = CompilerIdle
    /\ coach = NoCoach
    /\ call \in {[fn |-> "none", arg |-> m, result |-> << >>] : m \in UserMessages}

Called(fn, result) ==
    /\ call.fn = "none"
    /\ call' = [call EXCEPT !.fn = fn, !.result = result]
    /\ UNCHANGED <<job_matcher, sessions, now, resp, last_payload, parser, compiler, coach, session_state, frontend, synonym_mapper>>

call_is_ambiguous == Called("is_ambiguous", <<is_ambiguous(call.arg)>>)

call_generate_search_queries ==
    Called("generate_search_queries", generate_search_queries(call.arg))

NextAssistant ==
    \/ call_is_ambiguous
    \/ call_generate_search_queries

SpecAssistant == InitAssistant /\ [][NextAssistant]_vars

\* words of the messages whose jobs are searched: words of the two jobs of the
\* catalogue, one of them a competence keyword
ResultWords == {"python", "backend", "data", "sql"}

\* longest message whose jobs are searched, in tokens
MaxResultTokens == 3

ResultMessages == SeqsUpTo(ResultWords, MaxResultTokens)

\* values of top_k: fewer than the jobs of the catalogue, and the default
TopKs == {1, TopK}

InitResults ==
    /\ job_matcher = "JobMatcher"
    /\ session_state = FreshSessionState
    /\ frontend = NoFrontend
    /\ synonym_mapper = BuiltMapper
    /\ sessions = [s \in {} |-> NoResults]
    /\ now = 0
    /\ resp = NoResponse
    /\ last_payload = [s \in SessionIds |-> NoResults]
    /\ parser = ParserIdle
    /\ compiler = CompilerIdle
    /\ coach = NoCoach
    /\ call \in {[fn |-> "none", arg |-> m, result |-> << >>] : m \in ResultMessages}

\* what search_jobs gives for each of the queries: job id and score
RECURSIVE GivenBy(_, _)
GivenBy(search_queries, top_k) ==
    IF search_queries = << >> THEN {}
    ELSE {[job_id |-> get_job_by_index(m.idx).job_id, score |-> m.score] :
             m \in Range(search_jobs(Head(search_queries).query, top_k))}
         \cup GivenBy(Tail(search_queries), top_k)

\* a call of build_job_results, kept with what the matcher gave for the queries
BuildFrom(search_queries, top_k) ==
    [top_k   |-> top_k,
     given   |-> GivenBy(search_queries, top_k),
     results |-> build_job_results(job_matcher, search_queries, top_k)]

\* build_job_results on the queries generated for the message
call_build_job_results(top_k) ==
    Called("build_job_results", BuildFrom(generate_search_queries(call.arg), top_k))

NextResults == \E top_k \in TopKs : call_build_job_results(top_k)

SpecResults == InitResults /\ [][NextResults]_vars

(***************************************************************************)
(* Properties of is_ambiguous and generate_search_queries, checked under   *)
(* SpecAssistant.                                                          *)
(***************************************************************************)
HasWordOf(user_message, markers) ==
    \E i \in 1..Len(user_message) : user_message[i] \in markers

AmbiguityOf(answer) == call.fn = "is_ambiguous" /\ call.result = <<answer>>

C17_FiveToEightQueries ==
    call.fn = "generate_search_queries" /\ call.arg # << >> =>
       /\ Len(call.result) >= MinQueries
       /\ Len(call.result) <= MaxQueries
       /\ \A i \in 1..Len(call.result) :
             /\ call.result[i].query # << >>
             /\ {"google_link", "indeed_link"} \subseteq DOMAIN call.result[i]
             /\ call.result[i].google_link.site = "google"
             /\ call.result[i].indeed_link.site = "indeed"
             /\ call.result[i].indeed_link.q = call.result[i].query
             /\ \A j \in 1..Len(call.result) :
                   i # j => call.result[i].query # call.result[j].query

\* C17, witness: a message for which more than 8 texts are proposed and 8
\* are returned
C17_EightQueries ==
    /\ call.fn = "generate_search_queries"
    /\ call.arg = <<"python", "backend", "data", "remote">>
    /\ Len(call.result) = MaxQueries

(***************************************************************************)
(* Properties of build_job_results, checked under SpecResults.             *)
(***************************************************************************)
Built == call.fn = "build_job_results"

Backslash == "\\"

Macro(name) == <<Backslash, name, "{", "}">>

\* the dict `replacements`, in its insertion order, which is the order the
\* loop applies it in
replacements ==
    << [char |-> "&", by |-> <<Backslash, "&">>],
       [char |-> "%", by |-> <<Backslash, "%">>],
       [char |-> "$", by |-> <<Backslash, "$">>],
       [char |-> "#", by |-> <<Backslash, "#">>],
       [char |-> "^", by |-> Macro("textasciicircum")],
       [char |-> "_", by |-> <<Backslash, "_">>],
       [char |-> "{", by |-> <<Backslash, "{">>],
       [char |-> "}", by |-> <<Backslash, "}">>],
       [char |-> "|", by |-> <<Backslash, "|">>],
       [char |-> "~", by |-> Macro("textasciitilde")],
       [char |-> Backslash, by |-> Macro("textbackslash")],
       [char |-> "<", by |-> Macro("textless")],
       [char |-> ">", by |-> Macro("textgreater")] >>

SpecialChars == {replacements[i].char : i \in 1..Len(replacements)}

\* str.replace(char, replacement): every occurrence of the one-character
\* pattern; the text is split in halves to keep the evaluation shallow
RECURSIVE Replace(_, _, _)
Replace(text, char, replacement) ==
    IF text = << >> THEN << >>
    ELSE IF Len(text) = 1 THEN (IF text[1] = char THEN replacement ELSE text)
    ELSE Replace(SubSeq(text, 1, Len(text) \div 2), char, replacement)
         \o Replace(SubSeq(text, Len(text) \div 2 + 1, Len(text)), char, replacement)

\* for char, replacement in replacements.items(): text = text.replace(...)
RECURSIVE ApplyReplacements(_, _)
ApplyReplacements(text, todo) ==
    IF todo = << >> THEN text
    ELSE ApplyReplacements(Replace(text, Head(todo).char, Head(todo).by), Tail(todo))

escape_latex(text) ==
    IF text = << >> THEN << >> ELSE ApplyReplacements(text, replacements)

\* characters of the texts: a letter, and special characters that are
\* replaced before the backslash, with it, and after it
Chars == {"a", "&", "^", "{", Backslash, "<"}

\* longest text, in characters
MaxChars == 3

Texts == SeqsUpTo(Chars, MaxChars)

InitEscape ==
    /\ job_matcher = "JobMatcher"
    /\ session_state = FreshSessionState
    /\ frontend = NoFrontend
    /\ synonym_mapper = BuiltMapper
    /\ sessions = [s \in {} |-> NoResults]
    /\ now = 0
    /\ resp = NoResponse
    /\ last_payload = [s \in SessionIds |-> NoResults]
    /\ parser = ParserIdle
    /\ compiler = CompilerIdle
    /\ coach = NoCoach
    /\ call \in {[fn |-> "none", arg |-> t, result |-> << >>] : t \in Texts}

call_escape_latex == Called("escape_latex", escape_latex(call.arg))

\* escape_latex applied to what escape_latex returned
call_escape_latex_again ==
    /\ call.fn = "escape_latex"
    /\ call' = [call EXCEPT !.fn = "escape_latex_again", !.result = escape_latex(@)]
    /\ UNCHANGED <<job_matcher, sessions, now, resp, last_payload, parser, compiler, coach, session_state, frontend, synonym_mapper>>

NextEscape == call_escape_latex \/ call_escape_latex_again

SpecEscape == InitEscape /\ [][NextEscape]_vars

\* the characters a backslash escapes, and the macros that stand for one
EscapedByBackslash == {"&", "%", "$", "#", "_", "{", "}", "|"}
MacroNames == {"textasciicircum", "textasciitilde", "textbackslash", "textless",
               "textgreater"}

\* text has a special character that is not part of an escape sequence
RECURSIVE HasUnescaped(_)
HasUnescaped(text) ==
    IF text = << >> THEN FALSE
    ELSE IF Head(text) = Backslash
    THEN IF Len(text) >= 2 /\ text[2] \in EscapedByBackslash
         THEN HasUnescaped(SubSeq(text, 3, Len(text)))
         ELSE IF Len(text) >= 4 /\ text[2] \in MacroNames /\ text[3] = "{" /\ text[4] = "}"
         THEN HasUnescaped(SubSeq(text, 5, Len(text)))
         ELSE TRUE
    ELSE IF Head(text) \in SpecialChars THEN TRUE
    ELSE HasUnescaped(Tail(text))

\* C19: escape_latex returns a text without special characters unchanged,
\* and applying it to a text it produced gives no unescaped special
\* character.
C19_EscapedStaysEscaped ==
    /\ call.fn = "escape_latex" /\ Range(call.arg) \cap SpecialChars = {}
          => call.result = call.arg
    /\ call.fn = "escape_latex_again" => ~ HasUnescaped(call.result)

(***************************************************************************)
(* utils/latex_generator.py : format_cv_data_from_parser, and              *)
(* routes/search_routes.py : _map_parsed_to_template_optimized             *)
(* The experience part of the ParsedCV -> ResumeTemplateData mapping.  A   *)
(* date is a sequence of characters, compared as Python compares str: by   *)
(* code point, character by character.                                     *)
(***************************************************************************)
ord ==
    [c \in {" ", "-"} \cup {"0", "1", "2", "3", "6", "9"} \cup {"J", "P"}
           \cup {"a", "e", "n", "r", "s", "t"} |->
       CASE c = " " -> 32 [] c = "-" -> 45
         [] c = "0" -> 48 [] c = "1" -> 49 [] c = "2" -> 50 [] c = "3" -> 51
         [] c = "6" -> 54 [] c = "9" -> 57
         [] c = "J" -> 74 [] c = "P" -> 80
         [] c = "a" -> 97 [] c = "e" -> 101 [] c = "n" -> 110 [] c = "r" -> 114
         [] c = "s" -> 115 [] c = "t" -> 116]

\* a < b on str
RECURSIVE StrLess(_, _)
StrLess(a, b) ==
    IF b = << >> THEN FALSE
    ELSE IF a = << >> THEN TRUE
    ELSE IF ord[Head(a)] # ord[Head(b)] THEN ord[Head(a)] < ord[Head(b)]
    ELSE StrLess(Tail(a), Tail(b))

Present == <<"P", "r", "e", "s", "e", "n", "t">>

\* '9999-12-31', the key of an open-ended job
FarFuture == <<"9", "9", "9", "9", "-", "1", "2", "-", "3", "1">>

IsoDate == <<"2", "0", "2", "1", "-", "0", "6", "-", "3", "0">>

MonthYear == <<"J", "a", "n", " ", "2", "0", "2", "1">>

\* x.get('end_date', 'Present')
EndDateOf(job) == IF job.has_end_date THEN job.end_date ELSE Present

\* the sort key: key=lambda x: ... else '9999-12-31'
SortKey(job) == IF EndDateOf(job) # Present THEN EndDateOf(job) ELSE FarFuture

\* where sorted(..., reverse=True) puts one more element: after every element
\* whose key is not smaller, so that equal keys keep their order
RECURSIVE InsertDescending(_, _)
InsertDescending(sorted, job) ==
    IF sorted = << >> THEN <<job>>
    ELSE IF StrLess(SortKey(Head(sorted)), SortKey(job)) THEN <<job>> \o sorted
    ELSE <<Head(sorted)>> \o InsertDescending(Tail(sorted), job)

RECURSIVE sorted_experience(_)
sorted_experience(employment_history) ==
    IF employment_history = << >> THEN << >>
    ELSE InsertDescending(
             sorted_experience(SubSeq(employment_history, 1, Len(employment_history) - 1)),
             employment_history[Len(employment_history)])

\* "Only keep 3 most recent jobs" and "the most important 3-4 bullet points"
KeptJobs == 3
KeptBullets == 4

ExpItem(job, description) ==
    [position |-> job.title, company |-> job.company, end_date |-> EndDateOf(job),
     description |-> description]

\* the loop over the sorted jobs: an item without position and description
\* is left out
RECURSIVE ExperienceList(_, _)
ExperienceList(jobs, bullets) ==
    IF jobs = << >> THEN << >>
    ELSE LET job == Head(jobs)
             description == Take(job.responsibilities, bullets)
         IN  (IF job.title # "" \/ description # << >>
              THEN <<ExpItem(job, description)>> ELSE << >>)
             \o ExperienceList(Tail(jobs), bullets)

\* the experience list of format_cv_data_from_parser: every job, every bullet
format_cv_data_from_parser(employment_history) ==
    LET sorted == sorted_experience(employment_history)
    IN  ExperienceList(sorted, Len(sorted) + KeptBullets)

\* the experience list of _map_parsed_to_template_optimized
_map_parsed_to_template_optimized(employment_history) ==
    LET sorted == sorted_experience(employment_history)
    IN  ExperienceList(Take(sorted, KeptJobs), KeptBullets)

\* a bullet point is the number of characters of its escaped text
Job(title, company, has_end_date, end_date, responsibilities) ==
    [title |-> title, company |-> company, has_end_date |-> has_end_date,
     end_date |-> end_date, responsibilities |-> responsibilities]

\* the jobs of the histories: open-ended (stated or by default), ended on an
\* ISO date, ended on a month and year, and one without title and bullets
ParsedJobs ==
    { Job("Developer", "Acme", TRUE, Present, <<40, 150, 30, 30, 30>>),
      Job("Intern", "Acme", FALSE, << >>, << >>),
      Job("Analyst", "Globex", TRUE, IsoDate, <<60>>),
      Job("Tester", "Initech", TRUE, MonthYear, << >>),
      Job("", "", TRUE, IsoDate, << >>) }

\* longest employment history
MaxJobs == 4

EmploymentHistories == SeqsUpTo(ParsedJobs, MaxJobs)

InitTemplate ==
    /\ job_matcher = "JobMatcher"
    /\ session_state = FreshSessionState
    /\ frontend = NoFrontend
    /\ synonym_mapper = BuiltMapper
    /\ sessions = [s \in {} |-> NoResults]
    /\ now = 0
    /\ resp = NoResponse
    /\ last_payload = [s \in SessionIds |-> NoResults]
    /\ parser = ParserIdle
    /\ compiler = CompilerIdle
    /\ coach = NoCoach
    /\ call \in {[fn |-> "none", arg |-> h, result |-> << >>] : h \in EmploymentHistories}

(***************************************************************************)
(* POST /api/ats_cv : main.py includes two routers that declare it.  The   *)
(* experience block of the LaTeX source each handler generates: one entry  *)
(* per \cventry, with its \item lines.  The template data/ats_resume.tex   *)
(* is taken to hold the experience loop block.                             *)
(***************************************************************************)
\* app.include_router(...) in the order of main.py, with the POST paths of
\* each router
IncludedRouters ==
    << [router |-> "job_routes", posts |-> {"/jobs/assistant", "/jobs/smart-assistant"}],
       [router |-> "cv_routes", posts |-> {"/cv/analyze", "/cv/analyze-upload"}],
       [router |-> "search_routes",
        posts |-> {"/api/search", "/api/clarify", "/api/cv_analyser", "/api/ats_cv"}],
       [router |-> "ats_routes", posts |-> {"/api/ats_cv", "/api/ats_evaluate"}],
       [router |-> "assistant_routes", posts |-> {"/api/assistant"}],
       [router |-> "smart_assistant_routes", posts |-> {"/api/smart-assistant"}] >>

\* the router that serves a POST: the first included one that declares the path
Dispatch(path) ==
    LET declaring == {i \in 1..Len(IncludedRouters) : path \in IncludedRouters[i].posts}
    IN  IncludedRouters[CHOOSE i \in declaring : \A j \in declaring : i <= j].router

\* "Max 2 experiences for one page", "max 3 per experience", "Truncate long items"
RenderedJobs == 2
RenderedBullets == 3
MaxItemLen == 120
CutItemLen == 117

\* one \item line: the characters kept of the bullet, and whether "..." follows
WholeItem(chars) == [chars |-> chars, ellipsis |-> FALSE]

CutItem(chars) ==
    IF chars > MaxItemLen THEN [chars |-> CutItemLen, ellipsis |-> TRUE]
    ELSE WholeItem(chars)

RECURSIVE CutItems(_)
CutItems(description) ==
    IF description = << >> THEN << >>
    ELSE (IF Head(description) > 0 THEN <<CutItem(Head(description))>> ELSE << >>)
         \o CutItems(Tail(description))

RECURSIVE WholeItems(_)
WholeItems(description) ==
    IF description = << >> THEN << >>
    ELSE (IF Head(description) > 0 THEN <<WholeItem(Head(description))>> ELSE << >>)
         \o WholeItems(Tail(description))

CvEntry(exp, items) == [position |-> exp.position, company |-> exp.company, items |-> items]

\* the experience loop of _render_template
RECURSIVE ExperienceBlock(_)
ExperienceBlock(experience_items) ==
    IF experience_items = << >> THEN << >>
    ELSE LET exp == Head(experience_items)
         IN  (IF exp.position # "" /\ exp.company # ""
              THEN <<CvEntry(exp, CutItems(Take(exp.description, RenderedBullets)))>>
              ELSE << >>)
             \o ExperienceBlock(Tail(experience_items))

_render_template(experience_items) ==
    ExperienceBlock(Take(experience_items, RenderedJobs))

_generate_ats_latex(employment_history) ==
    _render_template(_map_parsed_to_template_optimized(employment_history))

\* latex_generator.py: every item with position and company, every bullet
RECURSIVE generate_experience_section(_)
generate_experience_section(experience_list) ==
    IF experience_list = << >> THEN << >>
    ELSE LET exp == Head(experience_list)
         IN  (IF exp.position # "" /\ exp.company # ""
              THEN <<CvEntry(exp, WholeItems(exp.description))>>
              ELSE << >>)
             \o generate_experience_section(Tail(experience_list))

generate_latex_from_json(experience_list) ==
    generate_experience_section(experience_list)

\* the LaTeX source POST /api/ats_cv returns for a parsed CV
AtsCvLatex(employment_history) ==
    IF Dispatch("/api/ats_cv") = "search_routes"
    THEN _generate_ats_latex(employment_history)
    ELSE generate_latex_from_json(format_cv_data_from_parser(employment_history))

call_ats_cv == Called("ats_cv", AtsCvLatex(call.arg))

call_format_cv_data_from_parser ==
    Called("format_cv_data_from_parser", format_cv_data_from_parser(call.arg))

call_map_parsed_to_template_optimized ==
    Called("_map_parsed_to_template_optimized",
           _map_parsed_to_template_optimized(call.arg))

NextTemplate ==
    \/ call_format_cv_data_from_parser
    \/ call_map_parsed_to_template_optimized
    \/ call_ats_cv

SpecTemplate == InitTemplate /\ [][NextTemplate]_vars

Mapped == call.fn \in {"format_cv_data_from_parser", "_map_parsed_to_template_optimized"}

\* C20: in the experience list of the mapping, every entry whose end date is
\* "Present" stands before every entry with a concrete end date, whatever
\* the date string.
C20_PresentFirst ==
    Mapped =>
        \A i, j \in 1..Len(call.result) :
            call.result[i].end_date = Present /\ call.result[j].end_date # Present
                => i < j

(***************************************************************************)
(* Properties of GET /jobs/{job_title}/search-link, checked under          *)
(* SpecRoutes.                                                             *)
(***************************************************************************)
\* C21: GET /jobs/{title}/search-link answers 200 with the link set of the
\* title, every URL taken from generate_all_urls(title), which has an entry
\* for every key the endpoint reads.
C21_SearchLinkAnswers ==
    resp.route = "jobs_search_link" =>
        /\ resp.status = 200
        /\ SearchLinkKeys \subseteq DOMAIN generate_all_urls(resp.input, DefaultLocation)
        /\ \A k \in SearchLinkKeys :
              resp.body.urls[k] = generate_all_urls(resp.input, DefaultLocation)[k]

\* C22: POST /api/ats_cv preserves all content without truncation: every
\* employment entry of the parsed CV that has a position and a company
\* appears in the LaTeX source with all of its bullet points at full length.
C22_EveryEntryWhole ==
    call.fn = "ats_cv" =>
        \A i \in 1..Len(call.arg) :
            call.arg[i].title # "" /\ call.arg[i].company # ""
                => \E k \in 1..Len(call.result) :
                      call.result[k] =
                          [position |-> call.arg[i].title, company |-> call.arg[i].company,
                           items |-> WholeItems(call.arg[i].responsibilities)]

(***************************************************************************)
(* services/cv_analyzer.py : CVAnalyzer, and the skills part of            *)
(* POST /api/cv_analyser.  A text is a sequence of words; a skill list is  *)
(* the set of its entries.                                                 *)
(***************************************************************************)
\* a faulty lower() that leaves the word as it is
lower_unchanged(word) == word

\* str.lower() on the words of the texts
lower(word) ==
    CASE word = "JavaScript" -> "javascript"
      [] word = "JS" -> "js"
      [] word = "Python" -> "python"
      [] word = "SQL" -> "sql"
      [] word = "Réact" -> "réact"
      [] OTHER -> word

text_lower(text) == [i \in 1..Len(text) |-> lower(text[i])]

\* the one-word entries of self.technical_skills that the texts use
technical_skills ==
    {"python", "javascript", "java", "php", "ruby", "go", "swift", "kotlin",
     "typescript", "react", "angular", "vue", "html", "css", "sql", "docker"}

\* re.search(r'\b' + skill + r'\b', text_lower): the skill is a word of the text
WordsFound(lowered) == {skill \in technical_skills : skill \in Range(lowered)}

extract_skills_from_text(text) == WordsFound(text_lower(text))

\* self.domain_keywords, for the two domains the texts touch
domain_keywords ==
    [web_development |-> {"javascript", "react", "html", "css", "typescript", "vue",
                          "angular", "frontend", "backend"},
     backend |-> {"java", "spring", "python", "django", "flask", "sql", "mongodb",
                  "api", "rest"}]

\* kw in job_lower: a substring test, so "java" is found inside "javascript"
InsideText(kw, lowered) ==
    \E i \in 1..Len(lowered) : lowered[i] = kw \/ (kw = "java" /\ lowered[i] = "javascript")

\* the domains' keywords, kept when at least MinDomainMatches are in the text
MinDomainMatches == 2
FewSkills == 3

DomainMatches(lowered) ==
    UNION { LET domain_matches == {kw \in domain_keywords[d] : InsideText(kw, lowered)}
            IN  IF Cardinality(domain_matches) >= MinDomainMatches
                THEN domain_matches ELSE {}
            : d \in DOMAIN domain_keywords }

\* common_patterns: the words before the captured (\w+)
common_patterns ==
    { <<"expérience", "en">>, <<"connaissance", "en">>, <<"maîtrise", "de">>,
      <<"compétences", "en">>, <<"savoir">>, <<"expérience", "avec">> }

PatternMatches(lowered) ==
    { lowered[i] : i \in {j \in 1..Len(lowered) :
                           \E pat \in common_patterns :
                              /\ j > Len(pat)
                              /\ SubSeq(lowered, j - Len(pat), j - 1) = pat} }
        \cap technical_skills

\* every skill the three steps collect, before list(set(...))[:15]
JobSkillsFound(job_description) ==
    LET job_lower == text_lower(job_description)
        exact == WordsFound(job_lower)
    IN  exact
        \cup (IF Cardinality(exact) < FewSkills THEN DomainMatches(job_lower) ELSE {})
        \cup PatternMatches(job_lower)

\* list(set(x))[:n]: the first n entries in the iteration order of a set of
\* str, which differs from one process to the next
FirstOfSet(skills, n) ==
    IF Cardinality(skills) <= n THEN {skills}
    ELSE {kept \in SUBSET skills : Cardinality(kept) = n}

\* the cuts [:15] of the job skills and [:10] of the common skills; the cuts
\* [:20] and [:30] of the other lists are above the 16 skills of the texts
MaxJobSkills == 15
MaxCommonShown == 10

\* a faulty gap list that reports every job skill
identify_all_job_skills(cv_skills, job_skills) == job_skills

\* the skill names of identify_skill_gaps
identify_skill_gaps(cv_skills, job_skills) ==
    {skill \in job_skills : skill \notin cv_skills}

\* the skill fields of the result of analyze_cv_vs_job
analyze_cv_vs_job(cv_text, job_skills, common_shown) ==
    LET cv_skills == extract_skills_from_text(cv_text)
    IN  [cv_skills |-> cv_skills,
         job_skills |-> job_skills,
         missing_skills |-> identify_skill_gaps(cv_skills, job_skills),
         matched |-> common_shown]

\* the skill fields of the response of POST /api/cv_analyser
CvAnalyserSkills(cv_text, api_skills, job_skills) ==
    LET cv_skills == IF api_skills # {} THEN api_skills
                     ELSE extract_skills_from_text(cv_text)
    IN  [cv_skills |-> cv_skills,
         job_skills |-> job_skills,
         missing_skills |-> {skill \in job_skills : skill \notin cv_skills},
         matched |-> cv_skills \cap job_skills]

SixteenSkills ==
    <<"python", "javascript", "java", "php", "ruby", "go", "swift", "kotlin",
      "typescript", "react", "angular", "vue", "html", "css", "sql", "docker">>

ElevenSkills == SubSeq(SixteenSkills, 1, 11)

CvTexts ==
    { <<"JavaScript">>, <<"javascript">>, <<"JS">>, <<"Réact">>, <<"react">>,
      <<"Python", "SQL">>, <<"python", "sql">>, ElevenSkills }

JobTexts ==
    { <<"python", "sql", "docker">>, <<"javascript", "frontend">>,
      <<"expérience", "en", "python">>, <<"JS">>, ElevenSkills, SixteenSkills }

\* api_response.get("skills", []): none, or the parser's own spelling
ApiSkills == { {}, {"Python", "sql"} }

InitAnalyzer ==
    /\ job_matcher = "JobMatcher"
    /\ session_state = FreshSessionState
    /\ frontend = NoFrontend
    /\ synonym_mapper = BuiltMapper
    /\ sessions = [s \in {} |-> NoResults]
    /\ now = 0
    /\ resp = NoResponse
    /\ last_payload = [s \in SessionIds |-> NoResults]
    /\ parser = ParserIdle
    /\ compiler = CompilerIdle
    /\ coach = NoCoach
    /\ call \in {[fn |-> "none", arg |-> [cv |-> c, jd |-> j], result |-> << >>] :
                    c \in CvTexts, j \in JobTexts}

call_extract_skills_from_text ==
    Called("extract_skills_from_text", extract_skills_from_text(call.arg.cv))

call_analyze_cv_vs_job ==
    \E job_skills \in FirstOfSet(JobSkillsFound(call.arg.jd), MaxJobSkills) :
       \E common_shown \in FirstOfSet(extract_skills_from_text(call.arg.cv) \cap job_skills,
                                      MaxCommonShown) :
          Called("analyze_cv_vs_job",
                 analyze_cv_vs_job(call.arg.cv, job_skills, common_shown))

call_cv_analyser ==
    \E api_skills \in ApiSkills :
       \E job_skills \in FirstOfSet(JobSkillsFound(call.arg.jd), MaxJobSkills) :
          Called("cv_analyser", CvAnalyserSkills(call.arg.cv, api_skills, job_skills))

NextAnalyzer ==
    \/ call_extract_skills_from_text
    \/ call_analyze_cv_vs_job
    \/ call_cv_analyser

SpecAnalyzer == InitAnalyzer /\ [][NextAnalyzer]_vars

Analysed == call.fn \in {"analyze_cv_vs_job", "cv_analyser"}

SameLetters(word) ==
    CASE word \in {"JavaScript", "javascript"} -> "javascript"
      [] word \in {"JS", "js"} -> "js"
      [] word \in {"Python", "python"} -> "python"
      [] word \in {"SQL", "sql"} -> "sql"
      [] OTHER -> word

\* the words that differ in letter case, accents or synonym variant only
SameSkill(word) ==
    CASE word \in {"JavaScript", "javascript", "JS", "js"} -> "javascript"
      [] word \in {"Python", "python"} -> "python"
      [] word \in {"SQL", "sql"} -> "sql"
      [] word \in {"Réact", "réact", "react"} -> "react"
      [] OTHER -> word

Alike(same(_), text, other) ==
    /\ Len(text) = Len(other)
    /\ \A i \in 1..Len(text) : same(text[i]) = same(other[i])

Extracted == call.fn = "extract_skills_from_text"

Card(name) == [name |-> name, broken |-> FALSE]
NoTitleCard == [name |-> "", broken |-> FALSE]
BrokenCard == [name |-> "", broken |-> TRUE]

Page(status, cards) == [status |-> status, cards |-> cards]

Platforms == <<"Coursera", "Udemy", "edX", "Google Digital Garage">>

\* soup.select(...)[:5] and for card in course_cards[:3]
CardsSelected == 5
CardsKept == 3

digital_skills == {"marketing digital", "seo", "analytics", "e-commerce",
                   "réseaux sociaux", "digital marketing"}

\* the name given to a card without title element
DefaultName(platform, skill) ==
    IF platform = "Google Digital Garage" THEN <<"Fundamentals of", skill>>
    ELSE <<"Cours", skill, platform>>

\* the loop over the cards: a card whose parsing raises is skipped
RECURSIVE CoursesOfCards(_, _, _)
CoursesOfCards(cards, platform, skill) ==
    IF cards = << >> THEN << >>
    ELSE (IF Head(cards).broken THEN << >>
          ELSE <<[platform |-> platform,
                  name |-> IF Head(cards).name # "" THEN <<Head(cards).name>>
                           ELSE DefaultName(platform, skill)]>>)
         \o CoursesOfCards(Tail(cards), platform, skill)

Raised == [raised |-> TRUE, courses |-> << >>]
Returns(courses) == [raised |-> FALSE, courses |-> courses]

\* the body of the try block of a platform lookup: session.get raises on a
\* network error, raise_for_status() on an error status (not called for
\* Google Digital Garage, which is only asked for digital skills)
LookupBody(platform, skill, page) ==
    IF platform = "Google Digital Garage"
    THEN IF skill \notin digital_skills THEN Returns(<< >>)
         ELSE IF page.status = "network_error" THEN Raised
         ELSE Returns(CoursesOfCards(Take(page.cards, CardsKept), platform, skill))
    ELSE IF page.status \in {"network_error", "http_error"} THEN Raised
    ELSE Returns(CoursesOfCards(Take(Take(page.cards, CardsSelected), CardsKept),
                                platform, skill))

\* a faulty lookup without its try/except
search_platform_unguarded(platform, skill, page) == LookupBody(platform, skill, page)

\* search_coursera, search_udemy, search_edx, search_google_digital_garage:
\* except Exception: return []
search_platform(platform, skill, page) ==
    IF LookupBody(platform, skill, page).raised THEN Returns(<< >>)
    ELSE LookupBody(platform, skill, page)

\* unique_courses: the first course of each name
RECURSIVE UniqueByName(_, _)
UniqueByName(courses, seen_names) ==
    IF courses = << >> THEN << >>
    ELSE IF Head(courses).name \in seen_names
    THEN UniqueByName(Tail(courses), seen_names)
    ELSE <<Head(courses)>> \o UniqueByName(Tail(courses), seen_names \cup {Head(courses).name})

search_courses(skill, pages, max_courses) ==
    LET platforms == [i \in 1..Len(Platforms) |-> search_platform(Platforms[i], skill, pages[i])]
    IN  IF \E i \in 1..Len(Platforms) : platforms[i].raised
        THEN Returns(<< >>)
        ELSE Returns(Take(UniqueByName(platforms[1].courses \o platforms[2].courses
                                          \o platforms[3].courses \o platforms[4].courses,
                                       {}),
                          max_courses))

ScrapedPages ==
    { Page("network_error", << >>),
      Page("http_error", <<Card("Error")>>),
      Page("ok", << >>),
      Page("ok", <<Card("Intro"), Card("Advanced")>>),
      Page("ok", <<NoTitleCard, BrokenCard, Card("Intro"), Card("Practice")>>) }

ScrapedSkills == {"python", "seo"}

MaxCoursesChoices == {0, 2, 5}

InitScraper ==
    /\ job_matcher = "JobMatcher"
    /\ session_state = FreshSessionState
    /\ frontend = NoFrontend
    /\ synonym_mapper = BuiltMapper
    /\ sessions = [s \in {} |-> NoResults]
    /\ now = 0
    /\ resp = NoResponse
    /\ last_payload = [s \in SessionIds |-> NoResults]
    /\ parser = ParserIdle
    /\ compiler = CompilerIdle
    /\ coach = NoCoach
    /\ call \in {[fn |-> "none", arg |-> [skill |-> k, pages |-> <<a, b, c, d>>],
                  result |-> << >>] :
                    k \in ScrapedSkills, a \in ScrapedPages, b \in ScrapedPages,
                    c \in ScrapedPages, d \in ScrapedPages}

call_search_courses(max_courses) ==
    Called("search_courses",
           [max_courses |-> max_courses]
              @@ search_courses(call.arg.skill, call.arg.pages, max_courses))

NextScraper == \E n \in MaxCoursesChoices : call_search_courses(n)

SpecScraper == InitScraper /\ [][NextScraper]_vars

Searched == call.fn = "search_courses"

\* the platforms whose lookup failed for the pages given
FailedPlatforms ==
    {i \in 1..Len(Platforms) :
        /\ call.arg.pages[i].status # "ok"
        /\ ~ (i = 4 /\ (call.arg.skill \notin digital_skills
                          \/ call.arg.pages[i].status = "http_error"))}

\* C25: search_courses never raises; a failed platform lookup contributes no
\* course and does not keep the courses of the other platforms from being
\* returned; the names returned are pairwise distinct and there are at most
\* max_courses of them.
C25_FailuresContained ==
    Searched =>
        LET courses == call.result.courses
        IN  /\ ~ call.result.raised
            /\ \A k \in 1..Len(courses) :
                  \E i \in 1..Len(Platforms) :
                     /\ i \notin FailedPlatforms
                     /\ courses[k].platform = Platforms[i]
            /\ \A i \in (1..3) \ FailedPlatforms :
                  \A c \in 1..Len(call.arg.pages[i].cards) :
                     /\ c <= CardsKept
                     /\ ~ call.arg.pages[i].cards[c].broken
                     /\ call.arg.pages[i].cards[c].name # ""
                     /\ Len(courses) < call.result.max_courses
                     => \E k \in 1..Len(courses) :
                           courses[k].name = <<call.arg.pages[i].cards[c].name>>
            /\ \A k, m \in 1..Len(courses) : k # m => courses[k].name # courses[m].name
            /\ Len(courses) <= call.result.max_courses

\* C25, witness: the Coursera request fails, Udemy answers an error status,
\* and the courses of edX are returned
C25_OnePlatformLeft ==
    /\ Searched
    /\ call.arg.pages[1].status = "network_error"
    /\ call.arg.pages[2].status = "http_error"
    /\ Len(call.result.courses) = 2
    /\ \A k \in 1..2 : call.result.courses[k].platform = "edX"

(***************************************************************************)
(* frontend/pages/0_Smart_Assistant.py and frontend/services/api_client.py *)
(* : the chat with the Smart Assistant.                                    *)
(***************************************************************************)
Backend == <<job_matcher, sessions, now, resp, last_payload, parser, compiler, coach,
             call, synonym_mapper>>

\* dict.get(key, default)
Get(dict, key, default) == IF key \in DOMAIN dict THEN dict[key] ELSE default

\* metadata or {}
NoMetadata == << >>

\* add_message_to_history: the message appended
Message(content, is_user, metadata) ==
    [content |-> content, is_user |-> is_user, metadata |-> metadata]

\* APIClient.smart_assistant_search: the query parameters of the POST
smart_assistant_search(message, clarification) ==
    [endpoint |-> "/api/smart-assistant",
     sent_as |-> "params",
     fields |-> IF clarification # "" THEN [message |-> message, clarification |-> clarification]
                ELSE [message |-> message]]

\* what /api/smart-assistant answers: the fields the page reads, or no answer
\* (a RequestException, raised again as Exception)
Unanswered == [endpoint |-> "/api/smart-assistant", failed |-> TRUE]

SmartAnswers ==
    {[endpoint |-> "/api/smart-assistant", failed |-> FALSE,
      assistant_response |-> "coach", needs_clarification |-> b,
      clarification_questions |-> q] :
        b \in BOOLEAN, q \in {<< >>, <<"Quel domaine ?", "Quel poste ?">>}}
    \cup {Unanswered}

\* handle_smart_assistant_request: the history after the request
handle_smart_assistant_request(messages, message, response) ==
    IF response.failed
    THEN Append(messages, Message("error", FALSE, NoMetadata))
    ELSE LET answered ==
                 messages \o <<Message(message, TRUE, NoMetadata),
                               Message(response.assistant_response, FALSE,
                                       [needs_clarification |-> response.needs_clarification,
                                        clarification_questions |->
                                            response.clarification_questions])>>
         IN  IF response.needs_clarification /\ response.clarification_questions # << >>
             THEN Append(answered,
                         Message("questions", FALSE, [is_clarification |-> TRUE]))
             ELSE answered

\* render_chat_input: needs_clarification, read from the last message
AwaitsClarification(messages) ==
    /\ messages # << >>
    /\ Get(messages[Len(messages)].metadata, "needs_clarification", FALSE)

\* the content of the last user message, "" when there is none
RECURSIVE LastUserMessage(_)
LastUserMessage(messages) ==
    IF messages = << >> THEN ""
    ELSE IF messages[Len(messages)].is_user THEN messages[Len(messages)].content
    ELSE LastUserMessage(SubSeq(messages, 1, Len(messages) - 1))

\* render_chat_input: the request for the text submitted
ChatRequest(messages, user_input) ==
    IF AwaitsClarification(messages) /\ LastUserMessage(messages) # ""
    THEN smart_assistant_search(LastUserMessage(messages), user_input)
    ELSE smart_assistant_search(user_input, "")

ChatTexts == {"je veux travailler en tech", "data a casablanca"}

MaxMessages == 5

\* the form of render_chat_input is submitted with a text
submit_chat(user_input, response) ==
    /\ Len(session_state.smart_assistant_messages) < MaxMessages
    /\ LET messages == session_state.smart_assistant_messages
           request == ChatRequest(messages, user_input)
       IN  /\ frontend' = [frontend EXCEPT !.request = request, !.response = response]
           /\ session_state' =
                 [session_state EXCEPT !.smart_assistant_messages =
                     handle_smart_assistant_request(messages, request.fields.message,
                                                    response)]
    /\ UNCHANGED Backend

\* the button "Nouvelle discussion"
new_discussion ==
    /\ session_state.smart_assistant_messages # << >>
    /\ session_state' = [session_state EXCEPT !.smart_assistant_messages = << >>]
    /\ frontend' = [frontend EXCEPT !.response = NoLastResponse]
    /\ UNCHANGED Backend

NextChat ==
    \/ \E t \in ChatTexts, r \in SmartAnswers : submit_chat(t, r)
    \/ new_discussion

SpecChat == Init /\ [][NextChat]_vars

\* C26: when the latest /api/smart-assistant response had needs_clarification
\* true, with or without clarification questions, the next text submitted is
\* sent as clarification, with the last user message as message.
C26_ClarificationContinues ==
    [][\A t \in ChatTexts, r \in SmartAnswers :
          /\ frontend.response.endpoint = "/api/smart-assistant"
          /\ ~ frontend.response.failed
          /\ frontend.response.needs_clarification
          /\ submit_chat(t, r)
          => frontend'.request.fields =
                [message |-> LastUserMessage(session_state.smart_assistant_messages),
                 clarification |-> t]]_vars

(***************************************************************************)
(* frontend/services/api_client.py : the requests of the modular pages.    *)
(***************************************************************************)
\* no dict, an empty dict, None
NoFields == << >>

\* APIClient._make_request: the HTTP request that leaves the client.  A POST
\* with files is multipart with the form fields of data; every other POST
\* carries json_data as its JSON body.
_make_request(method, endpoint, json_data, data, files) ==
    IF method = "GET"
    THEN [endpoint |-> endpoint, sent_as |-> "params", fields |-> json_data,
          files |-> NoFields]
    ELSE IF files # NoFields
    THEN [endpoint |-> endpoint, sent_as |-> "multipart", fields |-> data, files |-> files]
    ELSE [endpoint |-> endpoint, sent_as |-> "json", fields |-> json_data,
          files |-> NoFields]

\* files["cv_file"] = ... if cv_file
FilesOf(cv_file) == IF cv_file # "" THEN [cv_file |-> cv_file] ELSE NoFields

\* APIClient.search_jobs
api_client_search_jobs(query, session_id) ==
    _make_request("POST", "/api/search", [query |-> query, session_id |-> session_id],
                  NoFields, NoFields)

clarify_search(answer, session_id) ==
    _make_request("POST", "/api/clarify", [session_id |-> session_id, answer |-> answer],
                  NoFields, NoFields)

analyze_cv(cv_file, cv_text, job_description, session_id) ==
    _make_request("POST", "/api/cv_analyser", NoFields,
                  [cv_text |-> cv_text, job_description |-> job_description,
                   session_id |-> session_id],
                  FilesOf(cv_file))

optimize_ats_cv(cv_file, target_role, session_id) ==
    _make_request("POST", "/api/ats_cv", NoFields,
                  [target_role |-> target_role, session_id |-> session_id],
                  [cv_file |-> cv_file])

evaluate_ats_resume(cv_file, cv_text, session_id) ==
    _make_request("POST", "/api/ats_evaluate", NoFields,
                  [cv_text |-> cv_text, session_id |-> session_id],
                  FilesOf(cv_file))

(***************************************************************************)
(* What the backend answers to a request of the client: the keys the pages *)
(* read, with the endpoint that answered.                                  *)
(***************************************************************************)
\* response.raise_for_status() or the connection failed: Exception
NoAnswer(endpoint) == [endpoint |-> endpoint, raised |-> TRUE]

Unsuccessful(endpoint, error) ==
    [endpoint |-> endpoint, raised |-> FALSE, success |-> FALSE, error |-> error]

Question(endpoint) ==
    [endpoint |-> endpoint, raised |-> FALSE, clarify |-> TRUE, question |-> "Quel domaine ?"]

Results(endpoint) ==
    [endpoint |-> endpoint, raised |-> FALSE, clarify |-> FALSE, results |-> "jobs"]

Analysis ==
    [endpoint |-> "/api/cv_analyser", raised |-> FALSE, success |-> TRUE, score |-> 42]

Optimised ==
    [endpoint |-> "/api/ats_cv", raised |-> FALSE, success |-> TRUE, ats_latex |-> AtsLatex]

Evaluation ==
    [endpoint |-> "/api/ats_evaluate", raised |-> FALSE, success |-> TRUE,
     evaluation |-> "categories"]

\* a Form("") or File(None) parameter of a handler: its value in the request
FormField(request, name) ==
    IF request.sent_as = "multipart" THEN Get(request.fields, name, "") ELSE ""

HasFile(request) == "cv_file" \in DOMAIN request.files

search_answers(request) ==
    {NoAnswer(request.endpoint), Question(request.endpoint), Results(request.endpoint)}

cv_analyser_answers(request) ==
    {NoAnswer(request.endpoint)} \cup
    IF (~ HasFile(request) /\ FormField(request, "cv_text") = "")
          \/ FormField(request, "job_description") = ""
    THEN {Unsuccessful(request.endpoint, "Missing CV or Job Description")}
    ELSE IF HasFile(request)
    THEN {Unsuccessful(request.endpoint, "Erreur parsing CV"), Analysis}
    ELSE {Analysis}

ats_cv_answers(request) ==
    {NoAnswer(request.endpoint)} \cup
    IF ~ HasFile(request) THEN {Unsuccessful(request.endpoint, "Missing CV file.")}
    ELSE {Unsuccessful(request.endpoint, "Failed to parse CV"), Optimised}

ats_evaluate_answers(request) ==
    {NoAnswer(request.endpoint)} \cup
    IF HasFile(request)
    THEN {Unsuccessful(request.endpoint, "Failed to parse CV"), Evaluation}
    ELSE IF FormField(request, "cv_text") # ""
    THEN {Unsuccessful(request.endpoint, "Resume text is too short or empty"), Evaluation}
    ELSE {Unsuccessful(request.endpoint, "Either CV file or resume text must be provided")}

(***************************************************************************)
(* frontend/pages/1_Job_Search.py, 2_CV_Analyzer.py, 3_ATS_Optimizer.py,   *)
(* 4_ATS_Evaluator.py and frontend/utils/session_manager.py                *)
(***************************************************************************)
Pages == {"Job Search", "CV Analyzer", "ATS Optimizer", "ATS Evaluator"}

\* the endpoints whose responses a page stores
EndpointsOf(page) ==
    CASE page = "Job Search" -> {"/api/search", "/api/clarify"}
      [] page = "CV Analyzer" -> {"/api/cv_analyser"}
      [] page = "ATS Optimizer" -> {"/api/ats_cv"}
      [] page = "ATS Evaluator" -> {"/api/ats_evaluate"}

Shown(page, shown, response) == [page |-> page, shown |-> shown, response |-> response]

\* SessionManager.get_session_id
session_id == "uuid4"

\* SessionManager.get_last_response
get_last_response(state, page) == state.last_response

\* SessionManager.set_last_response
set_last_response(state, response) == [state EXCEPT !.last_response = response]

\* what main() of a page shows under its form
Render(page, state) ==
    LET last_response == get_last_response(state, page)
        given == last_response # NoLastResponse
    IN  CASE page = "Job Search" ->
                IF ~ given THEN Shown(page, "nothing", NoLastResponse)
                ELSE IF Get(last_response, "clarify", FALSE)
                THEN Shown(page, "clarification", last_response)
                ELSE Shown(page, "results", last_response)
          [] page = "CV Analyzer" ->
                IF given /\ (Get(last_response, "success", FALSE)
                               \/ "score" \in DOMAIN last_response)
                THEN Shown(page, "results", last_response)
                ELSE Shown(page, "nothing", NoLastResponse)
          [] page = "ATS Optimizer" ->
                IF given /\ (Get(last_response, "success", FALSE)
                               \/ "ats_latex" \in DOMAIN last_response)
                THEN Shown(page, "results", last_response)
                ELSE Shown(page, "nothing", NoLastResponse)
          [] page = "ATS Evaluator" ->
                IF given /\ Get(last_response, "success", FALSE)
                      /\ "evaluation" \in DOMAIN last_response
                THEN Shown(page, "results", last_response)
                ELSE IF given /\ ~ Get(last_response, "success", FALSE)
                THEN Shown(page, "error", last_response)
                ELSE Shown(page, "nothing", NoLastResponse)

\* the page is opened, or run again without a submission
visit(page) ==
    /\ frontend' = [frontend EXCEPT !.rendered = Render(page, session_state)]
    /\ UNCHANGED session_state
    /\ UNCHANGED Backend

\* a form of the page sends request: a response is stored and the page runs
\* again; an exception is shown and the page goes on with what is stored
Submit(page, request, answers) ==
    \E response \in answers :
        /\ session_state' = IF response.raised THEN session_state
                            ELSE set_last_response(session_state, response)
        /\ frontend' = [request |-> request, response |-> response,
                        rendered |-> Render(page, session_state')]
        /\ UNCHANGED Backend

UploadedFiles == {"", "cv.pdf"}
PastedTexts == {"", "developpeur python cinq ans"}
JobDescriptions == {"", "backend python"}
TargetRoles == {"", "developpeur"}
SearchTexts == {"", "dev"}

\* 1_Job_Search.py : render_search_form
submit_search(query) ==
    IF query = "" THEN visit("Job Search")
    ELSE Submit("Job Search", api_client_search_jobs(query, session_id),
                search_answers(api_client_search_jobs(query, session_id)))

\* 1_Job_Search.py : render_clarification_flow
submit_clarification(clar_answer) ==
    /\ Render("Job Search", session_state).shown = "clarification"
    /\ Submit("Job Search", clarify_search(clar_answer, session_id),
              search_answers(clarify_search(clar_answer, session_id)))

\* 2_CV_Analyzer.py : render_cv_upload_form
submit_cv_form(uploaded_cv, cv_text_input, jd_text) ==
    IF (uploaded_cv = "" /\ cv_text_input = "") \/ jd_text = ""
    THEN visit("CV Analyzer")
    ELSE Submit("CV Analyzer", analyze_cv(uploaded_cv, cv_text_input, jd_text, session_id),
                cv_analyser_answers(analyze_cv(uploaded_cv, cv_text_input, jd_text,
                                               session_id)))

\* 3_ATS_Optimizer.py : render_ats_form
submit_ats_form(ats_cv_file, target_role) ==
    IF ats_cv_file = "" THEN visit("ATS Optimizer")
    ELSE Submit("ATS Optimizer", optimize_ats_cv(ats_cv_file, target_role, session_id),
                ats_cv_answers(optimize_ats_cv(ats_cv_file, target_role, session_id)))

\* 4_ATS_Evaluator.py : render_evaluation_form
submit_evaluation_form(cv_file, cv_text) ==
    IF cv_file = "" /\ cv_text = "" THEN visit("ATS Evaluator")
    ELSE Submit("ATS Evaluator", evaluate_ats_resume(cv_file, cv_text, session_id),
                ats_evaluate_answers(evaluate_ats_resume(cv_file, cv_text, session_id)))

NextPages ==
    \/ \E page \in Pages : visit(page)
    \/ \E q \in SearchTexts : submit_search(q)
    \/ \E a \in SearchTexts : submit_clarification(a)
    \/ \E f \in UploadedFiles, t \in PastedTexts, jd \in JobDescriptions :
          submit_cv_form(f, t, jd)
    \/ \E f \in UploadedFiles, r \in TargetRoles : submit_ats_form(f, r)
    \/ \E f \in UploadedFiles, t \in PastedTexts : submit_evaluation_form(f, t)

SpecPages == Init /\ [][NextPages]_vars

\* C27: a request to /api/cv_analyser or /api/ats_evaluate made for a CV
\* pasted as text, without file, carries the form fields cv_text,
\* job_description (for the analysis) and session_id, and the backend answers
\* on the pasted text.
C27_PastedTextSent ==
    /\ frontend.request.endpoint \in {"/api/cv_analyser", "/api/ats_evaluate"}
    /\ ~ HasFile(frontend.request)
    => /\ FormField(frontend.request, "cv_text") \in PastedTexts \ {""}
       /\ FormField(frontend.request, "session_id") = session_id
       /\ frontend.request.endpoint = "/api/cv_analyser"
             => FormField(frontend.request, "job_description") \in JobDescriptions \ {""}
       /\ ~ frontend.response.raised
             => frontend.response \in {Analysis, Evaluation,
                   Unsuccessful("/api/ats_evaluate", "Resume text is too short or empty")}

\* C29: what a page shows as results, as an error or as a clarification
\* question is a response that one of its own requests was answered with.
C29_OwnResponseOnly ==
    frontend.rendered.shown \in {"results", "error", "clarification"}
       => frontend.rendered.response.endpoint \in EndpointsOf(frontend.rendered.page)

(***************************************************************************)
(* routes/search_routes.py : clarify, over several rounds                  *)
(***************************************************************************)
\* refined_query = f"{session['original_query']} {request.answer}".strip():
\* the query a /api/clarify call with this answer evaluates and searches
RefinedQuery(session, answer) == session.original_query \o answer

\* the answers a user may give in the next round
FurtherAnswers == Answers \cup {<<"python">>}

\* C28: answers accumulate over the clarification rounds of a session: when a
\* /api/clarify call has asked a further question, the query that the next
\* call evaluates contains the answer already given besides its own.
C28_AnswersAccumulate ==
    /\ resp.route = "clarify"
    /\ resp.status = 200
    /\ resp.body.kind = "clarify"
    /\ HasSession(sessions, resp.sid)
    => \A answer \in FurtherAnswers :
          /\ Range(resp.input) \subseteq Range(RefinedQuery(sessions[resp.sid], answer))
          /\ Range(answer) \subseteq Range(RefinedQuery(sessions[resp.sid], answer))

(***************************************************************************)
(* utils/text_normalizer.py : SynonymMapper.add_synonym, get_all_variants  *)
(***************************************************************************)
\* TextNormalizer.normalize_text on the skill names registered: lower case,
\* punctuation replaced by a space, spaces collapsed
normalize_text(text) ==
    CASE text = "JS" -> "js"
      [] text = "Vanilla-JS" -> "vanilla js"
      [] text = "Mongo" -> "mongo"
      [] text = "JavaScript" -> "javascript"
      [] text = "MongoDB" -> "mongodb"
      [] text = "Scripting!" -> "scripting"
      [] OTHER -> text

\* TextNormalizer.normalize_skill
normalize_skill(skill) == normalize_text(skill)

\* the mapper after add_synonym(variant, standard)
add_synonym(mapper, variant, standard) ==
    LET normalized_variant == normalize_skill(variant)
        normalized_standard == normalize_skill(standard)
        listed == IF normalized_standard \in DOMAIN mapper.reverse_map
                  THEN mapper.reverse_map[normalized_standard] ELSE << >>
    IN  [mapper EXCEPT
            !.synonym_map = [v \in DOMAIN mapper.synonym_map \cup {normalized_variant} |->
                                IF v = normalized_variant THEN normalized_standard
                                ELSE mapper.synonym_map[v]],
            !.reverse_map = [s \in DOMAIN mapper.reverse_map \cup {normalized_standard} |->
                                IF s = normalized_standard
                                THEN Append(listed, normalized_variant)
                                ELSE mapper.reverse_map[s]]]

\* self.reverse_map.get(normalized, [])
VariantsListed(mapper, standard_skill) ==
    Get(mapper.reverse_map, normalize_skill(standard_skill), << >>)

get_all_variants(mapper, standard_skill) ==
    <<normalize_skill(standard_skill)>> \o VariantsListed(mapper, standard_skill)

NewVariants == {"JS", "Vanilla-JS", "Mongo"}
NewStandards == {"JavaScript", "MongoDB", "Scripting!"}

MaxSynonymCalls == 3

call_add_synonym(variant, standard) ==
    /\ synonym_mapper.calls < MaxSynonymCalls
    /\ synonym_mapper' = [add_synonym(synonym_mapper, variant, standard)
                             EXCEPT !.calls = synonym_mapper.calls + 1]
    /\ UNCHANGED <<job_matcher, sessions, now, resp, last_payload, parser, compiler, coach,
                   call, session_state, frontend>>

NextSynonyms == \E v \in NewVariants, s \in NewStandards : call_add_synonym(v, s)

SpecSynonyms == Init /\ [][NextSynonyms]_vars

\* the standard forms a mapper knows or was asked about
StandardForms ==
    DOMAIN synonym_mapper.reverse_map
       \cup {synonym_mapper.synonym_map[v] : v \in DOMAIN synonym_mapper.synonym_map}

\* C30: after any sequence of add_synonym calls the reverse lookup is the
\* inverse of the variant-to-standard map: the variants listed for a standard
\* form are the variants mapped to it, each listed once.
C30_ReverseIsInverse ==
    \A s \in StandardForms :
        LET listed == VariantsListed(synonym_mapper, s)
        IN  /\ Range(listed) = {v \in DOMAIN synonym_mapper.synonym_map :
                                   synonym_mapper.synonym_map[v] = s}
            /\ \A i, j \in 1..Len(listed) : i # j => listed[i] # listed[j]
====
